---- MODULE Spec2Model ----
(***************************************************************************)
(* Model of the natural-language-command pipeline of nlp-test-toolkit:     *)
(* the adapter factory and its fallback walk, NLPParser.parse, the         *)
(* response parser of BaseLLMAdapter, the command validator, the chat      *)
(* route's answer selection and the token-budgeted history window of       *)
(* ChatService.                                                            *)
(***************************************************************************)
EXTENDS Integers, Sequences, FiniteSets, TLC

VARIABLES
    config,         \* AdapterFactory.config: primaryProvider, fallbackProviders
    adapters,       \* AdapterFactory.adapters: the registered provider names
    health,         \* what each registered adapter's healthCheck() answers
    routeVariant,   \* which of the two router.post('/') bodies of api/chat serves
    modelText,      \* the raw text the completion service answers with
    pc,             \* position of the chat request
    adapter,        \* the adapter getPrimaryAdapter() returned
    attempted,      \* providers whose parse() was called for the request
    completion,     \* what the completion service did for the request
    result,         \* outcome of NLPParser.parse
    response,       \* what the chat route answered
    vcmds,          \* validateCommands: the command list under validation
    vres,           \* validateCommands: its outcome
    ptext,          \* parseResponse: a raw text
    pres,           \* parseResponse(ptext)
    wtext,          \* ptext wrapped in a fenced block
    wres,           \* parseResponse(wtext)
    chat_messages,  \* rows of the chat_messages table, in insertion order
    clock,          \* source of message timestamps
    window,         \* last answer of ChatService.getContextWindow
    providers,      \* AdapterFactory: config.providers, one entry per provider
    factory,        \* AdapterFactory: not constructed, constructed, or failed
    calls,          \* the getPrimaryAdapter() calls made on the factory so far
    adapterName,    \* one adapter class: which provider it is for
    providerConfig, \* one adapter class: the ProviderConfig it is given
    instance,       \* one adapter class: outcome of its constructor
    probe,          \* one adapter instance: its last healthCheck()
    userInput,      \* adapter.parse: the input of the call
    context,        \* adapter.parse: the ParseContext of the call
    sentMessages,   \* adapter.parse: what went to the completion service
    compileInput,   \* generatePlaywrightCode: its commands and options
    scripts,        \* generatePlaywrightCode: the texts its calls returned
    entries,        \* CostTracker.entries
    ledgerFile,     \* what cost-tracker.json holds
    tracking,       \* per chat request: how far its OpenRouter call is
    test_suites,    \* rows of the test_suites table
    creating,       \* per TestSuiteModel.create call in flight: its position
    versionsAssigned, \* the versions given to created suites, in creation order
    uuids,          \* number of ids drawn from uuidv4() so far
    stage,          \* position of one NLPParser.parse call
    fallbackIndex,  \* the loop index of getPrimaryAdapter's fallback loop
    inFlight,       \* the network call that call awaits
    test_executions, \* rows of the test_executions table
    routePc,        \* per POST /run/:suiteId request: position of the route
    runPc,          \* per request: position of the runTest call it started
    answered,       \* per request: the executionId of its 202 response
    bodyDone,       \* per request: executeTestCode completed without error
    msClock         \* Date.now(), in milliseconds

flowVars == <<config, adapters, health, routeVariant, modelText, pc, adapter,
              attempted, completion, result, response>>
valVars == <<vcmds, vres>>
prVars == <<ptext, pres, wtext, wres>>
winVars == <<chat_messages, clock, window>>
facVars == <<providers, factory, calls>>
adVars == <<adapterName, providerConfig, instance, probe>>
msgVars == <<userInput, context, sentMessages>>
adapterVars == <<facVars, adVars, msgVars>>
compVars == <<compileInput, scripts>>
ledgerVars == <<entries, ledgerFile, tracking>>
suiteVars == <<test_suites, creating, versionsAssigned, uuids>>
netVars == <<stage, fallbackIndex, inFlight>>
execVars == <<test_executions, routePc, runPc, answered, bodyDone, msClock>>
serviceVars == <<compVars, ledgerVars, suiteVars, netVars, execVars>>
vars == <<flowVars, valVars, prVars, winVars, adapterVars, serviceVars>>

----------------------------------------------------------------------------
(* Bounds of the model *)

NumProviders == 3
MaxFallbacks == 2
MaxTextLen == 4
MaxInterior == 2
MaxCommands == 1
MaxHistory == 2
MaxSmallBudget == 12

----------------------------------------------------------------------------
(* Small helpers *)

Undefined == "<undefined>"

Range(s) == {s[i] : i \in 1..Len(s)}

SeqsUpTo(S, n) == UNION {[1..k -> S] : k \in 0..n}

Min(S) == CHOOSE x \in S : \A y \in S : x =< y

\* JavaScript truthiness of an optional string field
Falsy(v) == v \in {Undefined, ""}

----------------------------------------------------------------------------
(* Commands and the command validator (nlp/parser.ts) *)

CommandTypes == {"navigate", "click", "type", "fill", "assert", "wait",
                 "screenshot", "select", "hover", "press"}

\* An optional string field of a command as the model's JSON carries it:
\* missing, the empty string, or some text.
FieldValues == {Undefined, "", "x"}

\* `extra` stands for any further, unknown field of the JSON object.
Commands == [type : CommandTypes, selector : FieldValues, value : FieldValues,
             description : {Undefined, "d"}, extra : {Undefined, "e"}]

Cmd(t, sel, val, desc) ==
    [type |-> t, selector |-> sel, value |-> val, description |-> desc,
     extra |-> Undefined]

NoError == [thrown |-> FALSE, type |-> "", field |-> ""]

\* The body of the for-loop of validateCommands for one command: the error
\* it throws, or NoError.
ValidateCommand(cmd) ==
    IF cmd.type = "navigate" /\ Falsy(cmd.value)
    THEN [thrown |-> TRUE, type |-> "navigate", field |-> "value"]
    ELSE IF cmd.type \in {"click", "fill", "type", "select", "hover"}
            /\ Falsy(cmd.selector)
    THEN [thrown |-> TRUE, type |-> cmd.type, field |-> "selector"]
    ELSE IF cmd.type \in {"fill", "type", "select"} /\ Falsy(cmd.value)
    THEN [thrown |-> TRUE, type |-> cmd.type, field |-> "value"]
    ELSE NoError

RECURSIVE ValidateFrom(_, _)
ValidateFrom(commands, i) ==
    IF i > Len(commands) THEN NoError
    ELSE IF ValidateCommand(commands[i]).thrown THEN ValidateCommand(commands[i])
    ELSE ValidateFrom(commands, i + 1)

\* Mutant of validateCommands: every list is accepted
validateCommands_AcceptsAll(commands) == NoError

\* NLPParser.validateCommands: the first violation in list order, or NoError.
validateCommands(commands) == ValidateFrom(commands, 1)

----------------------------------------------------------------------------
(* JSON values the model may answer with, and raw texts *)

\* A parsed JSON value, as far as parseResponse and the chat route read it.
\* confidence is in tenths (9 is 0.9), -1 when the key is absent;
\* questionnaire and error are "" when the key is absent.
JObject(hasCmds, cmds, conf, q, err, n) ==
    [kind |-> "object", hasCommands |-> hasCmds, commands |-> cmds,
     confidence |-> conf, questionnaire |-> q, error |-> err, nkeys |-> n]

JNull == [kind |-> "null", hasCommands |-> FALSE, commands |-> <<>>,
          confidence |-> -1, questionnaire |-> "", error |-> "", nkeys |-> 0]

JPrimitive == [kind |-> "primitive", hasCommands |-> FALSE, commands |-> <<>>,
               confidence |-> -1, questionnaire |-> "", error |-> "", nkeys |-> 0]

DocCatalog == <<
    \* 1: the navigate/click example of the README and the prompt
    JObject(TRUE, <<Cmd("navigate", Undefined, "x", "d"),
                    Cmd("click", "x", Undefined, "d")>>, 9, "", "", 2),
    \* 2: {}
    JObject(FALSE, <<>>, -1, "", "", 0),
    \* 3: the questionnaire answer the system prompt asks for
    JObject(TRUE, <<>>, 2, "q", "", 3),
    \* 4: a questionnaire that also carries an error text
    JObject(TRUE, <<>>, 2, "q", "vague", 4),
    \* 5: the legacy error answer
    JObject(TRUE, <<>>, 2, "", "vague", 3),
    \* 6: null
    JNull,
    \* 7: a number
    JPrimitive,
    \* 8: commands with confidence 0
    JObject(TRUE, <<Cmd("screenshot", Undefined, Undefined, Undefined)>>, 0, "", "", 2),
    \* 9: a click without selector
    JObject(TRUE, <<Cmd("click", Undefined, Undefined, "d")>>, 9, "", "", 2),
    \* 10: only an error text
    JObject(FALSE, <<>>, -1, "", "vague", 1),
    \* 11: a fill without value, then a click without selector
    JObject(TRUE, <<Cmd("fill", "x", Undefined, "d"),
                    Cmd("click", "", Undefined, "d")>>, 9, "", "", 2),
    \* 12: a navigate, then a press without key name
    JObject(TRUE, <<Cmd("navigate", Undefined, "x", "d"),
                    Cmd("press", Undefined, Undefined, "d")>>, 9, "", "", 2)
>>

NDocs == Len(DocCatalog)

\* A raw text is a sequence of chunks: three backticks, the tag json, a
\* newline, prose without backticks or newlines, or one complete JSON text of
\* the catalogue.
Ticks == [t |-> "ticks", d |-> 0]
Tag == [t |-> "tag", d |-> 0]
NL == [t |-> "nl", d |-> 0]
Prose == [t |-> "prose", d |-> 0]
Doc(k) == [t |-> "doc", d |-> k]

ParseFailure == [ok |-> FALSE, v |-> JNull]

\* JSON.parse: whitespace around exactly one JSON value, anything else is a
\* SyntaxError.
JSONParse(text) ==
    LET nonWs == {i \in 1..Len(text) : text[i].t # "nl"}
    IN IF Cardinality(nonWs) = 1 /\ \A i \in nonWs : text[i].t = "doc"
       THEN [ok |-> TRUE, v |-> DocCatalog[text[CHOOSE i \in nonWs : TRUE].d]]
       ELSE ParseFailure

NoMatch == [found |-> FALSE, interior |-> <<>>]

\* String.match of a fence regex whose opening is `open` chunks long: the
\* leftmost opening that has a closing newline+backticks after it, and
\* (lazy quantifier) the nearest such closing.
RegexMatch(text, opens, open) ==
    LET closes(i) == {j \in (i + open)..(Len(text) - 1) :
                         text[j] = NL /\ text[j + 1] = Ticks}
        starts == {i \in opens : closes(i) # {}}
    IN IF starts = {} THEN NoMatch
       ELSE LET i == Min(starts)
                j == Min(closes(i))
            IN [found |-> TRUE, interior |-> SubSeq(text, i + open, j - 1)]

\* rawResponse.match(/```json\n([\s\S]*?)\n```/)
MatchJsonFence(text) ==
    RegexMatch(text,
               {i \in 1..(Len(text) - 2) :
                   text[i] = Ticks /\ text[i + 1] = Tag /\ text[i + 2] = NL}, 3)

\* rawResponse.match(/```\n([\s\S]*?)\n```/)
MatchPlainFence(text) ==
    RegexMatch(text,
               {i \in 1..(Len(text) - 1) : text[i] = Ticks /\ text[i + 1] = NL}, 2)

\* jsonMatch = match(tagged) || match(untagged)
JsonMatch(text) ==
    IF MatchJsonFence(text).found THEN MatchJsonFence(text) ELSE MatchPlainFence(text)

----------------------------------------------------------------------------
(* BaseLLMAdapter.parseResponse (nlp/adapters/base.ts) *)

NoFailure == [kind |-> "", raw |-> <<>>, type |-> "", field |-> ""]

Failure(rawResponse, err) ==
    [ok |-> FALSE, commands |-> <<>>, confidence |-> -1, questionnaire |-> "",
     rawResponse |-> rawResponse, err |-> err]

\* Mutant of ParseError: the catch block answers with an empty result
ParseError_EmptyResult(rawResponse) ==
    [ok |-> TRUE, commands |-> <<>>, confidence |-> 8, questionnaire |-> "",
     rawResponse |-> rawResponse, err |-> NoFailure]

\* The Error thrown by the catch block: its message ends with the raw text.
ParseError(rawResponse) ==
    Failure(rawResponse,
            [kind |-> "parse", raw |-> rawResponse, type |-> "", field |-> ""])

\* parsed.commands || []
CommandsOrDefault(parsed) == IF parsed.hasCommands THEN parsed.commands ELSE <<>>

\* parsed.confidence || 0.8
ConfidenceOrDefault(parsed) ==
    IF parsed.confidence = -1 \/ parsed.confidence = 0 THEN 8 ELSE parsed.confidence

\* Mutant of ResultFromCodeBlock: the questionnaire is not copied
ResultFromCodeBlock_NoQuestionnaire(parsed, rawResponse) ==
    [ok |-> TRUE, commands |-> CommandsOrDefault(parsed),
     confidence |-> ConfidenceOrDefault(parsed),
     questionnaire |-> "",
     rawResponse |-> rawResponse, err |-> NoFailure]

\* return {...} of strategy 1
ResultFromCodeBlock(parsed, rawResponse) ==
    [ok |-> TRUE, commands |-> CommandsOrDefault(parsed),
     confidence |-> ConfidenceOrDefault(parsed),
     questionnaire |-> parsed.questionnaire,
     rawResponse |-> rawResponse, err |-> NoFailure]

\* return {...} of strategy 2
ResultFromDirectJSON(parsed, rawResponse) ==
    [ok |-> TRUE, commands |-> CommandsOrDefault(parsed),
     confidence |-> ConfidenceOrDefault(parsed),
     questionnaire |-> parsed.questionnaire,
     rawResponse |-> rawResponse, err |-> NoFailure]

\* Reading a property of null is a TypeError; JSON.parse may throw: both end
\* in the catch block.
parseResponse(rawResponse) ==
    LET jsonMatch == JsonMatch(rawResponse)
    IN IF jsonMatch.found
       THEN LET p == JSONParse(jsonMatch.interior)
            IN IF ~p.ok \/ p.v.kind = "null" THEN ParseError(rawResponse)
               ELSE ResultFromCodeBlock(p.v, rawResponse)
       ELSE LET p == JSONParse(rawResponse)
            IN IF ~p.ok \/ p.v.kind = "null" THEN ParseError(rawResponse)
               ELSE ResultFromDirectJSON(p.v, rawResponse)

----------------------------------------------------------------------------
(* Provider adapters: parse() around the completion call *)

ProviderNames == <<"openai", "gemini", "glm", "openrouter", "agentrouter">>

Providers == {ProviderNames[i] : i \in 1..NumProviders}

\* What the completion service did: the call failed (network error, non-2xx),
\* or it answered with a content that is null or a text.
Completion(failed, isNull, text) == [failed |-> failed, isNull |-> isNull, text |-> text]

ProviderError ==
    Failure(<<>>,
            [kind |-> "provider", raw |-> <<>>, type |-> "", field |-> ""])

\* OpenAIAdapter.parse: content || '{}', then parseResponse
OpenAIParse(c) ==
    IF c.failed THEN ProviderError
    ELSE IF c.isNull \/ c.text = <<>> THEN parseResponse(<<Doc(2)>>)
    ELSE parseResponse(c.text)

\* OpenRouterAdapter.parse: no content is an error, then parseResponse
OpenRouterParse(c) ==
    IF c.failed THEN ProviderError
    ELSE IF c.isNull \/ c.text = <<>> THEN ProviderError
    ELSE parseResponse(c.text)

\* GeminiAdapter.parse, GLMAdapter.parse, AgentRouterAdapter.parse: the
\* content goes to parseResponse as it is; null.match is a TypeError inside
\* parseResponse's try block.
PlainParse(c) ==
    IF c.failed THEN ProviderError
    ELSE IF c.isNull THEN ParseError(<<>>)
    ELSE parseResponse(c.text)

AdapterParse(provider, c) ==
    CASE provider = "openai" -> OpenAIParse(c)
      [] provider = "openrouter" -> OpenRouterParse(c)
      [] OTHER -> PlainParse(c)

----------------------------------------------------------------------------
(* Provider adapters: constructor, validateConfig, healthCheck *)

AllProviders == Range(ProviderNames)

\* A ProviderConfig as far as validateConfig reads it
ProviderConfigs == [apiKey : FieldValues, model : FieldValues, endpoint : FieldValues]

\* Boolean(config.apiKey && config.model); AgentRouterAdapter reads
\* config.endpoint in the place of config.model
validateConfig(provider, cfg) ==
    IF provider = "agentrouter"
    THEN ~Falsy(cfg.apiKey) /\ ~Falsy(cfg.endpoint)
    ELSE ~Falsy(cfg.apiKey) /\ ~Falsy(cfg.model)

\* BaseLLMAdapter's constructor: throws when validateConfig answers false
Constructor(provider, cfg) ==
    IF ~validateConfig(provider, cfg) THEN "threw" ELSE "constructed"

\* What the backend does with the probe of a health check: it answers with
\* success, it answers with an error status (401, 500), or nothing comes
\* back (network error, timeout)
ProbeOutcomes == {"ok", "rejected", "unreachable"}

NoProbe == [ran |-> FALSE, backend |-> "", thrown |-> FALSE, value |-> FALSE]

\* Mutant of healthCheck: no try/catch around the probe
healthCheck_Unguarded(provider, outcome) ==
    IF provider \in {"openai", "gemini"}
    THEN [thrown |-> outcome # "ok", value |-> outcome = "ok"]
    ELSE [thrown |-> outcome = "unreachable", value |-> outcome = "ok"]

\* healthCheck: the SDK adapters (openai, gemini) return true when the SDK
\* call resolves and false from the catch block, the SDK rejecting on an
\* error status as on a network error; the fetch adapters return response.ok
\* and false from the catch block
healthCheck(provider, outcome) ==
    IF provider \in {"openai", "gemini"}
    THEN IF outcome = "ok" THEN [thrown |-> FALSE, value |-> TRUE]
         ELSE [thrown |-> FALSE, value |-> FALSE]
    ELSE IF outcome = "unreachable" THEN [thrown |-> FALSE, value |-> FALSE]
         ELSE [thrown |-> FALSE, value |-> outcome = "ok"]

----------------------------------------------------------------------------
(* Provider adapters: what parse() sends to the completion service *)

\* One message of the request: its role, what it is, its text and the
\* commands it serialises
Message(role, kind, text, commands) ==
    [role |-> role, kind |-> kind, text |-> text, commands |-> commands]

\* { role: 'system', content: this.buildSystemPrompt() }
SystemMessage == Message("system", "system", "systemPrompt", <<>>)

\* { role: 'user', content: input }
UserMessage(input) == Message("user", "input", input, <<>>)

\* { role: 'assistant', content: `Previous commands executed:\n${JSON.stringify(...)}` }
PreviousCommandsMessage(previousCommands) ==
    Message("assistant", "previous", "Previous commands executed", previousCommands)

\* A turn of context.conversationHistory
Turn(role, text) == Message(role, "turn", text, <<>>)

\* OpenAIAdapter.parse: system, the history if there is one, the input
OpenAIMessages(input, ctx) ==
    <<SystemMessage>>
    \o (IF Len(ctx.conversationHistory) > 0 THEN ctx.conversationHistory ELSE <<>>)
    \o <<UserMessage(input)>>

\* OpenRouterAdapter.parse: system, the history if there is one, the input
OpenRouterMessages(input, ctx) ==
    <<SystemMessage>>
    \o (IF Len(ctx.conversationHistory) > 0 THEN ctx.conversationHistory ELSE <<>>)
    \o <<UserMessage(input)>>

\* GLMAdapter.parse: [system, user], then messages.splice(1, 0, assistant)
\* when there are previous commands
GLMMessages(input, ctx) ==
    IF Len(ctx.previousCommands) > 0
    THEN <<SystemMessage, PreviousCommandsMessage(ctx.previousCommands),
           UserMessage(input)>>
    ELSE <<SystemMessage, UserMessage(input)>>

\* AgentRouterAdapter.parse: [system, user], then messages.splice(1, 0,
\* assistant) when there are previous commands
AgentRouterMessages(input, ctx) ==
    IF Len(ctx.previousCommands) > 0
    THEN <<SystemMessage, PreviousCommandsMessage(ctx.previousCommands),
           UserMessage(input)>>
    ELSE <<SystemMessage, UserMessage(input)>>

\* GeminiAdapter.parse: one prompt text, here the sections it is
\* concatenated from: the system prompt, the previous commands if there are
\* some, 'User request: ' and the input
GeminiPrompt(input, ctx) ==
    <<Message("prompt", "system", "systemPrompt", <<>>)>>
    \o (IF Len(ctx.previousCommands) > 0
        THEN <<Message("prompt", "previous", "Previous commands executed",
                       ctx.previousCommands)>>
        ELSE <<>>)
    \o <<Message("prompt", "input", input, <<>>)>>

MessagesSent(provider, input, ctx) ==
    CASE provider = "openai" -> OpenAIMessages(input, ctx)
      [] provider = "openrouter" -> OpenRouterMessages(input, ctx)
      [] provider = "glm" -> GLMMessages(input, ctx)
      [] provider = "agentrouter" -> AgentRouterMessages(input, ctx)
      [] provider = "gemini" -> GeminiPrompt(input, ctx)

----------------------------------------------------------------------------
(* AdapterFactory (nlp/adapters/factory.ts) *)

\* config.providers[p]: missing, or a ProviderConfig
NoEntry == [present |-> FALSE, apiKey |-> Undefined, model |-> Undefined,
            endpoint |-> Undefined]

Entry(apiKey, model, endpoint) ==
    [present |-> TRUE, apiKey |-> apiKey, model |-> model, endpoint |-> endpoint]

\* Mutant of registerAdapters: the primary is not looked for
registerAdapters_NoPrimaryCheck(cfg, configured) ==
    LET present == {p \in DOMAIN configured : configured[p].present}
    IN IF \E p \in present : Constructor(p, configured[p]) = "threw"
       THEN [thrown |-> TRUE, reason |-> "adapter", adapters |-> {}]
       ELSE [thrown |-> FALSE, reason |-> "", adapters |-> present]

\* registerAdapters: one adapter per entry of config.providers, an adapter
\* constructor that throws ends the registration, and so does a primary
\* that is not among the registered adapters
registerAdapters(cfg, configured) ==
    LET present == {p \in DOMAIN configured : configured[p].present}
    IN IF \E p \in present : Constructor(p, configured[p]) = "threw"
       THEN [thrown |-> TRUE, reason |-> "adapter", adapters |-> {}]
       ELSE IF cfg.primaryProvider \notin present
       THEN [thrown |-> TRUE, reason |-> "primary", adapters |-> {}]
       ELSE [thrown |-> FALSE, reason |-> "", adapters |-> present]

\* getAdapter: throws 'Adapter not found' for a name without adapter
getAdapter(registered, provider) ==
    [thrown |-> provider \notin registered, adapter |-> provider]

\* Mutant of FallbackWalk: a name without adapter ends the walk
FallbackWalk_StopsAtThrow(fallbackProviders, i, registered, h) ==
    LET unregistered == {k \in i..Len(fallbackProviders) :
                            fallbackProviders[k] \notin registered}
        stop == IF unregistered = {} THEN Len(fallbackProviders) + 1
                ELSE Min(unregistered)
        healthy == {k \in i..(stop - 1) : h[fallbackProviders[k]]}
    IN IF healthy = {} THEN "" ELSE fallbackProviders[Min(healthy)]

RECURSIVE FallbackWalk(_, _, _, _)
\* The for-loop over config.fallbackProviders from position i: the first
\* fallback that is registered and healthy, "" when the loop ends without a
\* return. getAdapter's throw for an unregistered name is caught in the loop.
FallbackWalk(fallbackProviders, i, registered, h) ==
    IF i > Len(fallbackProviders) THEN ""
    ELSE IF fallbackProviders[i] \in registered /\ h[fallbackProviders[i]]
    THEN fallbackProviders[i]
    ELSE FallbackWalk(fallbackProviders, i + 1, registered, h)

\* Mutant of getPrimaryAdapter: the last healthy fallback wins
getPrimaryAdapter_LastFallback(cfg, registered, h) ==
    LET healthyAt == {i \in 1..Len(cfg.fallbackProviders) :
                        /\ cfg.fallbackProviders[i] \in registered
                        /\ h[cfg.fallbackProviders[i]]}
    IN IF h[cfg.primaryProvider] THEN cfg.primaryProvider
       ELSE IF healthyAt # {}
       THEN cfg.fallbackProviders[CHOOSE i \in healthyAt : \A j \in healthyAt : j =< i]
       ELSE cfg.primaryProvider

getPrimaryAdapter(cfg, registered, h) ==
    IF h[cfg.primaryProvider] THEN cfg.primaryProvider
    ELSE LET fallback == FallbackWalk(cfg.fallbackProviders, 1, registered, h)
         IN IF fallback # "" THEN fallback ELSE cfg.primaryProvider

----------------------------------------------------------------------------
(* NLPParser.parse after the adapter is chosen (nlp/parser.ts) *)

ValidationError(r, v) ==
    Failure(r.rawResponse,
            [kind |-> "validation", raw |-> <<>>, type |-> v.type, field |-> v.field])

\* result = await adapter.parse(...); this.validateCommands(result.commands);
\* return result
ParseAndValidate(provider, c) ==
    LET r == AdapterParse(provider, c)
    IN IF ~r.ok THEN r
       ELSE IF validateCommands(r.commands).thrown
       THEN ValidationError(r, validateCommands(r.commands))
       ELSE r

----------------------------------------------------------------------------
(* ChatService: message store and token-budgeted window (chat.service.ts) *)

Sessions == {"s1", "s2"}

Roles == {"user", "assistant"}

\* A message content: which text it is, its length in characters and the
\* number of tokens tiktoken counts in it.
Content(text, chars, tik) == [text |-> text, chars |-> chars, tik |-> tik]

Contents == {Content("short", 4, 1), Content("long", 12, 2)}

\* "Expert Playwright test generator...", the text the route counts as the
\* system prompt
SystemPromptApproximation == Content("system", 35, 6)

Models == {"gpt-4", "gpt-3.5-turbo"}

\* MODEL_CONTEXT_LIMITS[model] || 8192
ModelContextLimit(model) ==
    CASE model = "gpt-4" -> 8192
      [] model \in {"gpt-4-turbo", "gpt-4o"} -> 128000
      [] model \in {"gpt-3.5-turbo", "gpt-3.5-turbo-16k"} -> 16385
      [] OTHER -> 8192

\* getMessagesWithinBudget fetches getRecentMessages(sessionId, 100)
RecentLimit == 100

\* countTokens: tiktoken's count, or Math.ceil(text.length / 4) when tiktoken
\* throws
countTokens(content, tiktokenOk) ==
    IF tiktokenOk THEN content.tik ELSE (content.chars + 3) \div 4

countMessageTokens(content, tiktokenOk) == countTokens(content, tiktokenOk) + 4

Reverse(s) == [i \in 1..Len(s) |-> s[Len(s) + 1 - i]]

\* SELECT ... WHERE session_id = ? ORDER BY timestamp DESC LIMIT limit.
\* The table is kept in insertion order and saveMessage stamps each row with a
\* later time than the row before, so newest-first is the reverse of it.
OrderByTimestampDesc(rows, sessionId, limit) ==
    LET ofSession == SelectSeq(rows, LAMBDA r : r.sid = sessionId)
        newestFirst == Reverse(ofSession)
    IN IF Len(newestFirst) > limit THEN SubSeq(newestFirst, 1, limit) ELSE newestFirst

\* Mutant of getRecentMessages: the rows are not reversed
getRecentMessages_NewestFirst(rows, sessionId, limit) ==
    OrderByTimestampDesc(rows, sessionId, limit)

\* getRecentMessages: the newest `limit` rows of the session, oldest first
getRecentMessages(rows, sessionId, limit) ==
    Reverse(OrderByTimestampDesc(rows, sessionId, limit))

\* The loop variables of getMessagesWithinBudget; stopped is the break
LoopStart == [selected |-> <<>>, usedTokens |-> 0, stopped |-> FALSE]

\* Mutant of LoopBody: the test leaves out the cost of the message
LoopBody_IgnoresMessageCost(st, msg, tokenBudget, tiktokenOk) ==
    IF st.stopped THEN st
    ELSE IF st.usedTokens =< tokenBudget
    THEN [selected |-> <<msg>> \o st.selected,
          usedTokens |-> st.usedTokens + countMessageTokens(msg.content, tiktokenOk),
          stopped |-> FALSE]
    ELSE [st EXCEPT !.stopped = TRUE]

\* Mutant of LoopBody: a message that fits exactly is refused
LoopBody_StrictBudget(st, msg, tokenBudget, tiktokenOk) ==
    IF st.stopped THEN st
    ELSE IF st.usedTokens + countMessageTokens(msg.content, tiktokenOk) < tokenBudget
    THEN [selected |-> <<msg>> \o st.selected,
          usedTokens |-> st.usedTokens + countMessageTokens(msg.content, tiktokenOk),
          stopped |-> FALSE]
    ELSE [st EXCEPT !.stopped = TRUE]

\* One iteration of the for-loop, for the message allMessages[i]
LoopBody(st, msg, tokenBudget, tiktokenOk) ==
    IF st.stopped THEN st
    ELSE IF st.usedTokens + countMessageTokens(msg.content, tiktokenOk) =< tokenBudget
    THEN [selected |-> <<msg>> \o st.selected,
          usedTokens |-> st.usedTokens + countMessageTokens(msg.content, tiktokenOk),
          stopped |-> FALSE]
    ELSE [st EXCEPT !.stopped = TRUE]

RECURSIVE LoopRange(_, _, _, _, _, _)
\* The iterations i = hi, hi - 1, ..., lo of the for-loop, in that order
\* (split in halves to keep the evaluation shallow); after the break no
\* iteration runs
LoopRange(st, allMessages, hi, lo, tokenBudget, tiktokenOk) ==
    IF hi < lo \/ st.stopped THEN st
    ELSE IF hi = lo THEN LoopBody(st, allMessages[hi], tokenBudget, tiktokenOk)
    ELSE LET upper == LoopRange(st, allMessages, hi, ((hi + lo) \div 2) + 1,
                                tokenBudget, tiktokenOk)
         IN IF upper.stopped THEN upper
            ELSE LoopRange(upper, allMessages, (hi + lo) \div 2, lo,
                           tokenBudget, tiktokenOk)

getMessagesWithinBudget(rows, sessionId, tokenBudget, tiktokenOk) ==
    LET allMessages == getRecentMessages(rows, sessionId, RecentLimit)
    IN LoopRange(LoopStart, allMessages, Len(allMessages), 1,
                 tokenBudget, tiktokenOk).selected

\* Math.floor(totalLimit * 0.6)
MaxInputTokens(model) == (ModelContextLimit(model) * 6) \div 10

\* availableForHistory of getContextWindow
AvailableForHistory(model, systemPromptTokens, currentMessageTokens) ==
    MaxInputTokens(model) - systemPromptTokens - currentMessageTokens

\* What getContextWindow answered, with the inputs it was called with
getContextWindow(rows, sessionId, model, systemPromptTokens, currentMessageTokens, tiktokenOk) ==
    [called |-> TRUE, rows |-> rows, sid |-> sessionId, tiktokenOk |-> tiktokenOk,
     budget |-> AvailableForHistory(model, systemPromptTokens, currentMessageTokens),
     messages |-> getMessagesWithinBudget(rows, sessionId,
                     AvailableForHistory(model, systemPromptTokens,
                                         currentMessageTokens), tiktokenOk)]

NoWindow == [called |-> FALSE, rows |-> <<>>, sid |-> "", tiktokenOk |-> TRUE, budget |-> 0,
             messages |-> <<>>]

\* saveMessage: one more row, stamped with the current time
Row(ts, sessionId, role, content) ==
    [id |-> ts, sid |-> sessionId, role |-> role, content |-> content, ts |-> ts]

----------------------------------------------------------------------------
(* Code compiler: NLPParser.generatePlaywrightCode (nlp/parser.ts) *)

\* One line of the generated script: what it is and the texts it embeds.
Line(op, a, b) == [op |-> op, a |-> a, b |-> b]

\* The action line(s) of the switch statement
ActionLines(cmd) ==
    CASE cmd.type = "navigate" -> <<Line("goto", cmd.value, "")>>
      [] cmd.type = "click" -> <<Line("click", cmd.selector, "")>>
      [] cmd.type \in {"type", "fill"} -> <<Line("fill", cmd.selector, cmd.value)>>
      [] cmd.type = "assert" ->
            IF ~Falsy(cmd.selector)
            THEN <<Line("expectText", cmd.selector, cmd.value)>>
            ELSE <<Line("expectURL", cmd.value, "")>>
      [] cmd.type = "wait" ->
            IF ~Falsy(cmd.selector) THEN <<Line("waitForSelector", cmd.selector, "")>>
            ELSE IF ~Falsy(cmd.value) THEN <<Line("waitForTimeout", cmd.value, "")>>
            ELSE <<>>
      [] cmd.type = "screenshot" ->
            IF ~Falsy(cmd.selector) THEN <<Line("locatorScreenshot", cmd.selector, "")>>
            ELSE <<Line("pageScreenshot", "", "")>>
      [] cmd.type = "select" -> <<Line("selectOption", cmd.selector, cmd.value)>>
      [] cmd.type = "hover" -> <<Line("hover", cmd.selector, "")>>
      [] cmd.type = "press" -> <<Line("press", cmd.value, "")>>
      [] OTHER -> <<Line("unknown", cmd.type, "")>>

\* Mutant of commandToCode: the comment follows the action line
commandToCode_CommentAfter(cmd) ==
    ActionLines(cmd)
    \o (IF ~Falsy(cmd.description) THEN <<Line("comment", cmd.description, "")>> ELSE <<>>)
    \o <<Line("blank", "", "")>>

commandToCode(cmd) ==
    (IF ~Falsy(cmd.description) THEN <<Line("comment", cmd.description, "")>> ELSE <<>>)
    \o ActionLines(cmd) \o <<Line("blank", "", "")>>

RECURSIVE CommandsToCode(_, _)
\* for (const cmd of commands) code += this.commandToCode(cmd)
CommandsToCode(commands, i) ==
    IF i > Len(commands) THEN <<>>
    ELSE commandToCode(commands[i]) \o CommandsToCode(commands, i + 1)

\* options?.testName || 'Generated Test'
TestNameOrDefault(options) ==
    IF Falsy(options.testName) THEN "Generated Test" ELSE options.testName

\* options?.imports !== false
IncludeImports(options) == options.imports # "false"

\* Mutant of generatePlaywrightCode: the second script gets another name
generatePlaywrightCode_NumbersTests(commands, testName, imports) ==
    (IF imports THEN <<Line("import", "", ""), Line("blank", "", "")>> ELSE <<>>)
    \o <<Line("test", IF scripts = <<>> THEN testName ELSE "Generated Test 2", "")>>
    \o CommandsToCode(commands, 1)
    \o <<Line("end", "", "")>>

generatePlaywrightCode(commands, testName, imports) ==
    (IF imports THEN <<Line("import", "", ""), Line("blank", "", "")>> ELSE <<>>)
    \o <<Line("test", testName, "")>>
    \o CommandsToCode(commands, 1)
    \o <<Line("end", "", "")>>

----------------------------------------------------------------------------
(* Chat route: what POST /api/chat answers (api/chat/index.ts) *)

RouteVariants == {"debug", "plain"}

Answer(status, kind, commands, questionnaire, compiled, code) ==
    [status |-> status, kind |-> kind, commands |-> commands,
     questionnaire |-> questionnaire, compiled |-> compiled, code |-> code]

NoAnswer == Answer(0, "", <<>>, "", FALSE, <<>>)

\* res.status(400): the request has no message
BadRequestAnswer == Answer(400, "error", <<>>, "", FALSE, <<>>)

\* The catch block: res.status(500)
ErrorAnswer == Answer(500, "error", <<>>, "", FALSE, <<>>)

QuestionnaireAnswer(r) == Answer(200, "questionnaire", <<>>, r.questionnaire, FALSE, <<>>)

\* The legacy fallback: a fixed clarification text built from parsedResponse.error
ClarificationAnswer == Answer(200, "clarification", <<>>, "", FALSE, <<>>)

\* The success path: generatePlaywrightCode(result.commands, ...)
CommandsAnswer(r) ==
    Answer(200, "commands", r.commands, "", TRUE,
           generatePlaywrightCode(r.commands, "Generated Test", TRUE))

\* parsedResponse = result.rawResponse ? JSON.parse(result.rawResponse) : null
\* and then parsedResponse?.error
RawResponseError(rawResponse) ==
    IF rawResponse = <<>> THEN [threw |-> FALSE, error |-> ""]
    ELSE IF ~JSONParse(rawResponse).ok THEN [threw |-> TRUE, error |-> ""]
    ELSE [threw |-> FALSE, error |-> JSONParse(rawResponse).v.error]

\* The first router.post('/') of the file: the questionnaire branch sits
\* inside if (parsedResponse?.error)
ChatRouteDebug(r) ==
    IF ~r.ok \/ RawResponseError(r.rawResponse).threw THEN ErrorAnswer
    ELSE IF RawResponseError(r.rawResponse).error # ""
            /\ r.questionnaire # "" /\ Len(r.commands) = 0
    THEN QuestionnaireAnswer(r)
    ELSE IF RawResponseError(r.rawResponse).error # "" /\ Len(r.commands) = 0
    THEN ClarificationAnswer
    ELSE CommandsAnswer(r)

\* The second router.post('/') of the file
ChatRoutePlain(r) ==
    IF ~r.ok \/ RawResponseError(r.rawResponse).threw THEN ErrorAnswer
    ELSE IF r.questionnaire # "" /\ Len(r.commands) = 0 THEN QuestionnaireAnswer(r)
    ELSE IF RawResponseError(r.rawResponse).error # "" /\ Len(r.commands) = 0
    THEN ClarificationAnswer
    ELSE CommandsAnswer(r)

ChatRoute(variant, r) ==
    IF variant = "debug" THEN ChatRouteDebug(r) ELSE ChatRoutePlain(r)

\* The content of the assistant message the route saves with an answer
AssistantContent(answer) == Content(answer.kind, 12, 3)

----------------------------------------------------------------------------
(* The raw texts and configurations the model explores *)

Alphabet == {Ticks, Tag, NL, Prose, Doc(3)}

\* text inside a ```json block, or inside an untagged block, with or without
\* prose before it
Fenced(tagged, prose, text) ==
    (IF prose THEN <<Prose, NL>> ELSE <<>>)
    \o (IF tagged THEN <<Ticks, Tag, NL>> ELSE <<Ticks, NL>>)
    \o text \o <<NL, Ticks>>

BareDocs == {<<Doc(k)>> : k \in 1..NDocs}

FencedTexts ==
    {Fenced(tagged, prose, text) :
        tagged \in BOOLEAN, prose \in BOOLEAN,
        text \in SeqsUpTo(Alphabet, MaxInterior) \cup BareDocs}

AllTexts == SeqsUpTo(Alphabet, MaxTextLen) \cup BareDocs \cup FencedTexts

\* The answers explored together with every factory configuration
FewTexts == {<<Doc(1)>>, <<Doc(3)>>, <<Prose>>}

FactoryConfigs ==
    [primaryProvider : Providers, fallbackProviders : SeqsUpTo(Providers, MaxFallbacks)]

PrimaryOnlyConfigs == [primaryProvider : Providers, fallbackProviders : {<<>>}]

----------------------------------------------------------------------------
(* The chat request: POST /api/chat up to its answer *)

\* validateCommands has not run yet
NotValidated == [thrown |-> FALSE, type |-> "pending", field |-> ""]

\* parseResponse has not run yet
NotParsed ==
    Failure(<<>>, [kind |-> "pending", raw |-> <<>>, type |-> "", field |-> ""])

IdleValidator == vcmds = <<>> /\ vres = NotValidated

IdleParser ==
    /\ ptext = <<>> /\ pres = NotParsed
    /\ wtext = <<>> /\ wres = NotParsed

IdleFlow ==
    /\ config = [primaryProvider |-> ProviderNames[1], fallbackProviders |-> <<>>]
    /\ adapters = {ProviderNames[1]}
    /\ health = [p \in {ProviderNames[1]} |-> TRUE]
    /\ routeVariant = "plain"
    /\ modelText = <<>>
    /\ pc = "off"
    /\ adapter = ""
    /\ attempted = {}
    /\ completion = Completion(FALSE, TRUE, <<>>)
    /\ result = NotParsed
    /\ response = NoAnswer

EmptyStore == chat_messages = <<>> /\ clock = 0 /\ window = NoWindow

NoContext == [conversationHistory |-> <<>>, previousCommands |-> <<>>]

NothingSent == [adapter |-> "", messages |-> <<>>]

\* No factory under construction
IdleFactory ==
    /\ providers = [p \in Providers |-> NoEntry]
    /\ factory = "none"
    /\ calls = <<>>

\* No adapter class on its own
IdleAdapterClass ==
    /\ adapterName = ""
    /\ providerConfig = [apiKey |-> Undefined, model |-> Undefined,
                         endpoint |-> Undefined]
    /\ instance = "none"
    /\ probe = NoProbe

\* No prompt under construction
IdlePrompt ==
    /\ userInput = ""
    /\ context = NoContext
    /\ sentMessages = NothingSent

IdleAdapters == IdleFactory /\ IdleAdapterClass /\ IdlePrompt

NoOptions == [testName |-> Undefined, imports |-> Undefined]

\* Nothing to compile
IdleCompiler ==
    /\ compileInput = [commands |-> <<>>, options |-> NoOptions]
    /\ scripts = <<>>

\* An empty ledger and no request that would add to it
IdleLedger ==
    /\ entries = <<>>
    /\ ledgerFile = <<>>
    /\ tracking = <<>>

\* No test suite and no create call
IdleSuites ==
    /\ test_suites = {}
    /\ creating = <<>>
    /\ versionsAssigned = <<>>
    /\ uuids = 0

NoCall == [call |-> "none", provider |-> ""]

\* No parse call awaits the network
IdleNet ==
    /\ stage = "off"
    /\ fallbackIndex = 0
    /\ inFlight = NoCall

\* No execution and no run request
IdleExec ==
    /\ test_executions = {}
    /\ routePc = <<>>
    /\ runPc = <<>>
    /\ answered = <<>>
    /\ bodyDone = <<>>
    /\ msClock = 0

IdleServices == IdleCompiler /\ IdleLedger /\ IdleSuites /\ IdleNet /\ IdleExec

\* Steps 1-5 of the route with an empty message: res.status(400)
RejectEmptyMessage ==
    /\ pc = "idle"
    /\ pc' = "responded"
    /\ response' = BadRequestAnswer
    /\ UNCHANGED <<config, adapters, health, routeVariant, modelText, adapter,
                   attempted, completion, result>>
    /\ UNCHANGED <<valVars, prVars, winVars, adapterVars, serviceVars>>

\* Steps 1-5 of the route: save the user message, count tokens, fetch the
\* history window
ReceiveChat(message, tiktokenOk) ==
    /\ pc = "idle"
    /\ pc' = "received"
    /\ clock' = clock + 1
    /\ chat_messages' = Append(chat_messages, Row(clock + 1, "s1", "user", message))
    /\ window' = getContextWindow(chat_messages', "s1", "gpt-4",
                                  countTokens(SystemPromptApproximation, tiktokenOk),
                                  countTokens(message, tiktokenOk), tiktokenOk)
    /\ UNCHANGED <<config, adapters, health, routeVariant, modelText, adapter,
                   attempted, completion, result, response>>
    /\ UNCHANGED <<valVars, prVars, adapterVars, serviceVars>>

\* NLPParser.parse, first await: this.factory.getPrimaryAdapter()
GetPrimaryAdapter ==
    /\ pc = "received"
    /\ pc' = "selected"
    /\ adapter' = getPrimaryAdapter(config, adapters, health)
    /\ UNCHANGED <<config, adapters, health, routeVariant, modelText, attempted,
                   completion, result, response>>
    /\ UNCHANGED <<valVars, prVars, winVars, adapterVars, serviceVars>>

\* NLPParser.parse, second await: adapter.parse(...) with what the completion
\* service does, then validateCommands and the return
AdapterAnswers(failed, isNull) ==
    /\ pc = "selected"
    /\ pc' = "parsed"
    /\ attempted' = attempted \cup {adapter}
    /\ completion' = Completion(failed, isNull, modelText)
    /\ result' = ParseAndValidate(adapter, completion')
    /\ UNCHANGED <<config, adapters, health, routeVariant, modelText, adapter,
                   response>>
    /\ UNCHANGED <<valVars, prVars, winVars, adapterVars, serviceVars>>

\* The rest of the route: choose the answer, save the assistant message
Respond ==
    /\ pc = "parsed"
    /\ pc' = "responded"
    /\ response' = ChatRoute(routeVariant, result)
    /\ IF response'.status = 200
       THEN /\ clock' = clock + 1
            /\ chat_messages' = Append(chat_messages,
                   Row(clock + 1, "s1", "assistant", AssistantContent(response')))
       ELSE UNCHANGED <<chat_messages, clock>>
    /\ UNCHANGED <<config, adapters, health, routeVariant, modelText, adapter,
                   attempted, completion, result, window>>
    /\ UNCHANGED <<valVars, prVars, adapterVars, serviceVars>>

NextChat ==
    \/ RejectEmptyMessage
    \/ \E message \in Contents, tiktokenOk \in BOOLEAN : ReceiveChat(message, tiktokenOk)
    \/ GetPrimaryAdapter
    \/ \E failed \in BOOLEAN, isNull \in BOOLEAN : AdapterAnswers(failed, isNull)
    \/ Respond

\* Every factory configuration and health, a few answers of the model
Init ==
    /\ config \in FactoryConfigs
    /\ adapters \in {A \in SUBSET Providers : config.primaryProvider \in A}
    /\ health \in [adapters -> BOOLEAN]
    /\ routeVariant \in RouteVariants
    /\ modelText \in FewTexts
    /\ pc = "idle"
    /\ adapter = ""
    /\ attempted = {}
    /\ completion = Completion(FALSE, TRUE, <<>>)
    /\ result = NotParsed
    /\ response = NoAnswer
    /\ EmptyStore /\ IdleValidator /\ IdleParser /\ IdleAdapters /\ IdleServices

Spec == Init /\ [][NextChat]_vars

\* One healthy provider, every answer of the model
InitChat ==
    /\ config \in PrimaryOnlyConfigs
    /\ adapters = {config.primaryProvider}
    /\ health = [p \in adapters |-> TRUE]
    /\ routeVariant \in RouteVariants
    /\ modelText \in AllTexts
    /\ pc = "idle"
    /\ adapter = ""
    /\ attempted = {}
    /\ completion = Completion(FALSE, TRUE, <<>>)
    /\ result = NotParsed
    /\ response = NoAnswer
    /\ EmptyStore /\ IdleValidator /\ IdleParser /\ IdleAdapters /\ IdleServices

SpecChat == InitChat /\ [][NextChat]_vars

----------------------------------------------------------------------------
(* The validator on its own: every command list up to MaxCommands *)

InitValidator ==
    /\ vcmds \in SeqsUpTo(Commands, MaxCommands)
    /\ vres = NotValidated
    /\ IdleFlow /\ EmptyStore /\ IdleParser /\ IdleAdapters /\ IdleServices

Validate ==
    /\ vres = NotValidated
    /\ vres' = validateCommands(vcmds)
    /\ UNCHANGED <<vcmds, flowVars, prVars, winVars, adapterVars, serviceVars>>

SpecValidator == InitValidator /\ [][Validate]_vars

----------------------------------------------------------------------------
(* The response parser on its own: a raw text, bare and inside a fence *)

InitParser ==
    /\ ptext \in AllTexts
    /\ pres = NotParsed
    /\ wtext = <<>>
    /\ wres = NotParsed
    /\ IdleFlow /\ EmptyStore /\ IdleValidator /\ IdleAdapters /\ IdleServices

ParseRaw ==
    /\ pres = NotParsed
    /\ pres' = parseResponse(ptext)
    /\ UNCHANGED <<ptext, wtext, wres, flowVars, valVars, winVars, adapterVars, serviceVars>>

\* The same text as the model writes it inside a ```json block
WrapInFence(prose) ==
    /\ wtext = <<>>
    /\ wtext' = Fenced(TRUE, prose, ptext)
    /\ UNCHANGED <<ptext, pres, wres, flowVars, valVars, winVars, adapterVars, serviceVars>>

ParseWrapped ==
    /\ wtext # <<>>
    /\ wres = NotParsed
    /\ wres' = parseResponse(wtext)
    /\ UNCHANGED <<ptext, pres, wtext, flowVars, valVars, winVars, adapterVars, serviceVars>>

NextParser ==
    \/ ParseRaw
    \/ \E prose \in BOOLEAN : WrapInFence(prose)
    \/ ParseWrapped

SpecParser == InitParser /\ [][NextParser]_vars

----------------------------------------------------------------------------
(* The message store and the history window on their own *)

\* A session that already holds n messages
Backlog(n) ==
    [t \in 1..n |->
        Row(t, "s1", IF t % 2 = 1 THEN "user" ELSE "assistant", Content("short", 4, 1))]

BacklogSize == RecentLimit - 1

\* Messages saved since the initial state
SavedSinceInit == IF clock >= BacklogSize THEN clock - BacklogSize ELSE clock

InitWindow ==
    /\ \E n \in {0, BacklogSize} : chat_messages = Backlog(n) /\ clock = n
    /\ window = NoWindow
    /\ IdleFlow /\ IdleValidator /\ IdleParser /\ IdleAdapters /\ IdleServices

\* ChatService.saveMessage
SaveMessage(sessionId, role, content) ==
    /\ ~window.called
    /\ SavedSinceInit < MaxHistory
    /\ clock' = clock + 1
    /\ chat_messages' = Append(chat_messages, Row(clock + 1, sessionId, role, content))
    /\ UNCHANGED <<window, flowVars, valVars, prVars, adapterVars, serviceVars>>

\* ChatService.getContextWindow
GetContextWindow(sessionId, model, currentMessageTokens, tiktokenOk) ==
    /\ ~window.called
    /\ window' = getContextWindow(chat_messages, sessionId, model,
                                  countTokens(SystemPromptApproximation, tiktokenOk),
                                  currentMessageTokens, tiktokenOk)
    /\ UNCHANGED <<chat_messages, clock, flowVars, valVars, prVars, adapterVars, serviceVars>>

\* Token counts of the current message: of a short one, and of long ones that
\* leave a budget of b tokens for the history
CurrentMessageTokens(model, tiktokenOk) ==
    {1} \cup {MaxInputTokens(model)
              - countTokens(SystemPromptApproximation, tiktokenOk) - b :
                 b \in (-1)..MaxSmallBudget}

NextWindow ==
    \/ \E sessionId \in Sessions, role \in Roles, content \in Contents :
          SaveMessage(sessionId, role, content)
    \/ \E sessionId \in Sessions, model \in Models, tiktokenOk \in BOOLEAN :
          \E currentMessageTokens \in CurrentMessageTokens(model, tiktokenOk) :
             GetContextWindow(sessionId, model, currentMessageTokens, tiktokenOk)

SpecWindow == InitWindow /\ [][NextWindow]_vars

----------------------------------------------------------------------------
(* One adapter class: construction and health check *)

InitAdapter ==
    /\ adapterName \in AllProviders
    /\ providerConfig \in ProviderConfigs
    /\ instance = "none"
    /\ probe = NoProbe
    /\ IdleFlow /\ EmptyStore /\ IdleValidator /\ IdleParser
    /\ IdleFactory /\ IdlePrompt /\ IdleServices

\* new OpenAIAdapter(config), new GeminiAdapter(config), ...
NewAdapter ==
    /\ instance = "none"
    /\ instance' = Constructor(adapterName, providerConfig)
    /\ UNCHANGED <<adapterName, providerConfig, probe>>
    /\ UNCHANGED <<flowVars, valVars, prVars, winVars, facVars, msgVars, serviceVars>>

\* adapter.healthCheck() while the backend does `outcome` with the probe
HealthCheck(outcome) ==
    /\ instance = "constructed"
    /\ probe' = [ran |-> TRUE, backend |-> outcome,
                 thrown |-> healthCheck(adapterName, outcome).thrown,
                 value |-> healthCheck(adapterName, outcome).value]
    /\ UNCHANGED <<adapterName, providerConfig, instance>>
    /\ UNCHANGED <<flowVars, valVars, prVars, winVars, facVars, msgVars, serviceVars>>

NextAdapter ==
    \/ NewAdapter
    \/ \E outcome \in ProbeOutcomes : HealthCheck(outcome)

SpecAdapter == InitAdapter /\ [][NextAdapter]_vars

----------------------------------------------------------------------------
(* The adapter factory: construction, then calls of getPrimaryAdapter *)

MaxCalls == 2

\* The entries of config.providers explored: none, a complete one, one
\* without apiKey
FactoryEntries == {NoEntry, Entry("x", "x", "x"), Entry(Undefined, "x", "x")}

InitFactory ==
    /\ config \in FactoryConfigs
    /\ providers \in [Providers -> FactoryEntries]
    /\ factory = "none"
    /\ calls = <<>>
    /\ adapters = {}
    /\ health = [p \in {} |-> FALSE]
    /\ adapter = ""
    /\ routeVariant = "plain"
    /\ modelText = <<>>
    /\ pc = "off"
    /\ attempted = {}
    /\ completion = Completion(FALSE, TRUE, <<>>)
    /\ result = NotParsed
    /\ response = NoAnswer
    /\ EmptyStore /\ IdleValidator /\ IdleParser
    /\ IdleAdapterClass /\ IdlePrompt /\ IdleServices

\* new AdapterFactory(config): this.config = config; this.registerAdapters()
NewAdapterFactory ==
    /\ factory = "none"
    /\ factory' = IF registerAdapters(config, providers).thrown THEN "failed"
                  ELSE "constructed"
    /\ adapters' = registerAdapters(config, providers).adapters
    /\ health' = [p \in adapters' |-> FALSE]
    /\ UNCHANGED <<config, routeVariant, modelText, pc, adapter, attempted,
                   completion, result, response, providers, calls>>
    /\ UNCHANGED <<valVars, prVars, winVars, adVars, msgVars, serviceVars>>

\* Mutant of CallGetPrimaryAdapter: what the first call saw is kept
CallGetPrimaryAdapter_CachedHealth(outcomes) ==
    /\ factory = "constructed"
    /\ Len(calls) < MaxCalls
    /\ health' = IF calls = <<>>
                 THEN [p \in adapters |-> healthCheck(p, outcomes[p]).value]
                 ELSE health
    /\ adapter' = getPrimaryAdapter(config, adapters, health')
    /\ calls' = Append(calls,
                       [thrown |-> FALSE, adapter |-> adapter',
                        health |-> [p \in adapters |->
                                      healthCheck(p, outcomes[p]).value]])
    /\ UNCHANGED <<config, adapters, routeVariant, modelText, pc, attempted,
                   completion, result, response, providers, factory>>
    /\ UNCHANGED <<valVars, prVars, winVars, adVars, msgVars, serviceVars>>

\* factory.getPrimaryAdapter() while the backends do `outcomes` with the
\* probes: getAdapter(primary), then the health checks the call awaits
CallGetPrimaryAdapter(outcomes) ==
    /\ factory = "constructed"
    /\ Len(calls) < MaxCalls
    /\ health' = [p \in adapters |-> healthCheck(p, outcomes[p]).value]
    /\ adapter' = IF getAdapter(adapters, config.primaryProvider).thrown THEN ""
                  ELSE getPrimaryAdapter(config, adapters, health')
    /\ calls' = Append(calls,
                       [thrown |-> getAdapter(adapters, config.primaryProvider).thrown,
                        adapter |-> adapter', health |-> health'])
    /\ UNCHANGED <<config, adapters, routeVariant, modelText, pc, attempted,
                   completion, result, response, providers, factory>>
    /\ UNCHANGED <<valVars, prVars, winVars, adVars, msgVars, serviceVars>>

NextFactory ==
    \/ NewAdapterFactory
    \/ \E outcomes \in [adapters -> ProbeOutcomes] : CallGetPrimaryAdapter(outcomes)

SpecFactory == InitFactory /\ [][NextFactory]_vars

----------------------------------------------------------------------------
(* adapter.parse(input, context) up to the request it sends *)

MaxTurns == 2
MaxPrevious == 1

HistoryTurns == {Turn("user", "earlier request"), Turn("assistant", "earlier answer")}

PreviousCommandSet == {Cmd("navigate", Undefined, "x", "d"), Cmd("click", "x", Undefined, "d")}

\* A missing context, a missing conversationHistory and a missing
\* previousCommands read like empty ones (context?.x && context.x.length > 0)
ParseContexts ==
    [conversationHistory : SeqsUpTo(HistoryTurns, MaxTurns),
     previousCommands : SeqsUpTo(PreviousCommandSet, MaxPrevious)]

InitPrompt ==
    /\ userInput \in {"open the page", "click login"}
    /\ context \in ParseContexts
    /\ sentMessages = NothingSent
    /\ IdleFlow /\ EmptyStore /\ IdleValidator /\ IdleParser
    /\ IdleFactory /\ IdleAdapterClass /\ IdleServices

\* The adapter of `provider` builds its request for parse(userInput, context)
SendRequest(provider) ==
    /\ sentMessages = NothingSent
    /\ sentMessages' = [adapter |-> provider,
                        messages |-> MessagesSent(provider, userInput, context)]
    /\ UNCHANGED <<userInput, context>>
    /\ UNCHANGED <<flowVars, valVars, prVars, winVars, facVars, adVars, serviceVars>>

NextPrompt == \E provider \in AllProviders : SendRequest(provider)

SpecPrompt == InitPrompt /\ [][NextPrompt]_vars

----------------------------------------------------------------------------
(* The code compiler on its own: generatePlaywrightCode called twice *)

MaxCompiled == 2

\* The commands given to the compiler: every type, with and without
\* selector, value and description
CompilerCommands ==
    [type : CommandTypes, selector : {Undefined, "x"}, value : {Undefined, "x"},
     description : {Undefined, "d"}, extra : {Undefined}]

CompilerOptions == {NoOptions, [testName |-> "t", imports |-> "false"]}

InitCompiler ==
    /\ compileInput \in [commands : SeqsUpTo(CompilerCommands, MaxCompiled),
                          options : CompilerOptions]
    /\ scripts = <<>>
    /\ IdleFlow /\ EmptyStore /\ IdleValidator /\ IdleParser /\ IdleAdapters
    /\ IdleLedger /\ IdleSuites /\ IdleNet /\ IdleExec

\* parser.generatePlaywrightCode(commands, options)
Compile ==
    /\ Len(scripts) < 2
    /\ scripts' = Append(scripts,
                          generatePlaywrightCode(compileInput.commands,
                                                 TestNameOrDefault(compileInput.options),
                                                 IncludeImports(compileInput.options)))
    /\ UNCHANGED compileInput
    /\ UNCHANGED <<flowVars, valVars, prVars, winVars, adapterVars>>
    /\ UNCHANGED <<ledgerVars, suiteVars, netVars, execVars>>

SpecCompiler == InitCompiler /\ [][Compile]_vars

----------------------------------------------------------------------------
(* The cost ledger: CostTracker under concurrent chat requests *)

NumRequests == 3

Requests == 1..NumRequests

\* A cost entry: whose call added it and when
CostEntry(request, timestamp) == [request |-> request, timestamp |-> timestamp]

\* An entry that cost-tracker.json held when the process started
EarlierEntry == CostEntry(0, 0)

\* After new CostTracker(): loadFromFile() has read what the file holds
InitLedger ==
    /\ ledgerFile \in {<<>>, <<EarlierEntry>>}
    /\ entries = ledgerFile
    /\ tracking = [r \in Requests |-> "idle"]
    /\ IdleFlow /\ EmptyStore /\ IdleValidator /\ IdleParser /\ IdleAdapters
    /\ IdleCompiler /\ IdleSuites /\ IdleNet /\ IdleExec

\* OpenRouterAdapter.parse up to `await fetch(...)`: the request is sent
SendCompletionRequest(r) ==
    /\ tracking[r] = "idle"
    /\ tracking' = [tracking EXCEPT ![r] = "awaiting"]
    /\ UNCHANGED <<entries, ledgerFile>>
    /\ UNCHANGED <<flowVars, valVars, prVars, winVars, adapterVars>>
    /\ UNCHANGED <<compVars, suiteVars, netVars, execVars>>

\* fetch or response.json() rejects: parse rethrows before it reaches the
\* cost tracker
CompletionRequestFails(r) ==
    /\ tracking[r] = "awaiting"
    /\ tracking' = [tracking EXCEPT ![r] = "failed"]
    /\ UNCHANGED <<entries, ledgerFile>>
    /\ UNCHANGED <<flowVars, valVars, prVars, winVars, adapterVars>>
    /\ UNCHANGED <<compVars, suiteVars, netVars, execVars>>

\* saveToFile: writeFileSync of all entries; a write error is caught
saveToFile(all, file, written) == IF written THEN all ELSE file

\* Mutant of AddEntry: the entry is appended to what the file holds
AddEntry_ToFileContent(r, written) ==
    /\ tracking[r] = "awaiting"
    /\ entries' = Append(ledgerFile, CostEntry(r, Len(entries) + 1))
    /\ ledgerFile' = saveToFile(entries', ledgerFile, written)
    /\ tracking' = [tracking EXCEPT ![r] = "tracked"]
    /\ UNCHANGED <<flowVars, valVars, prVars, winVars, adapterVars>>
    /\ UNCHANGED <<compVars, suiteVars, netVars, execVars>>

\* The response arrived and parse reached costTracker.addEntry(...):
\* this.entries.push(fullEntry); this.saveToFile(). The call is synchronous,
\* so no other request runs between the push and the write.
AddEntry(r, written) ==
    /\ tracking[r] = "awaiting"
    /\ entries' = Append(entries, CostEntry(r, Len(entries) + 1))
    /\ ledgerFile' = saveToFile(entries', ledgerFile, written)
    /\ tracking' = [tracking EXCEPT ![r] = "tracked"]
    /\ UNCHANGED <<flowVars, valVars, prVars, winVars, adapterVars>>
    /\ UNCHANGED <<compVars, suiteVars, netVars, execVars>>

NextLedger ==
    \/ \E r \in Requests : SendCompletionRequest(r)
    \/ \E r \in Requests : CompletionRequestFails(r)
    \/ \E r \in Requests, written \in BOOLEAN : AddEntry(r, written)

SpecLedger == InitLedger /\ [][NextLedger]_vars

----------------------------------------------------------------------------
(* The chat route's call of the parser: history and current message *)

\* chatService.formatMessagesForLLM(recentMessages)
formatMessagesForLLM(messages) ==
    [i \in 1..Len(messages) |-> Turn(messages[i].role, messages[i].content)]

\* parser.parse(request.message, {...request.context, conversationHistory})
\* as the adapter named by provider turns it into its message sequence
RouteMessages(provider, message, recentMessages) ==
    MessagesSent(provider, message,
                 [conversationHistory |-> formatMessagesForLLM(recentMessages),
                  previousCommands |-> <<>>])

----------------------------------------------------------------------------
(* TestSuiteModel: create, update, delete on the test_suites table *)

NumCreators == 2
MaxCreates == 3

Creators == 1..NumCreators

SuiteNames == {"a", "b"}

NotCreating == [pc |-> "idle", id |-> 0, version |-> 0]

\* A row of test_suites; version is declared INTEGER NOT NULL UNIQUE
SuiteRow(id, version, name) == [id |-> id, version |-> version, name |-> name]

\* SELECT MAX(version) ...; (Number(maxVersion) || 0) + 1
getNextVersion(rows) ==
    IF rows = {} THEN 1
    ELSE (CHOOSE v \in {r.version : r \in rows} :
             \A w \in {r.version : r \in rows} : w =< v) + 1

InitSuites ==
    /\ test_suites = {}
    /\ creating = [c \in Creators |-> NotCreating]
    /\ versionsAssigned = <<>>
    /\ uuids = 0
    /\ IdleFlow /\ EmptyStore /\ IdleValidator /\ IdleParser /\ IdleAdapters
    /\ IdleCompiler /\ IdleLedger /\ IdleNet /\ IdleExec

\* create up to the end of `await this.getNextVersion()`: the id is drawn
\* and the version is read
CreateReadsVersion(c) ==
    /\ creating[c].pc \in {"idle", "created", "failed"}
    /\ uuids < MaxCreates
    /\ uuids' = uuids + 1
    /\ creating' = [creating EXCEPT
                       ![c] = [pc |-> "read", id |-> uuids + 1,
                               version |-> getNextVersion(test_suites)]]
    /\ UNCHANGED <<test_suites, versionsAssigned>>
    /\ UNCHANGED <<flowVars, valVars, prVars, winVars, adapterVars>>
    /\ UNCHANGED <<compVars, ledgerVars, netVars, execVars>>

\* create from `await db.execute(INSERT ...)` on: the insert fails on the
\* UNIQUE constraint when a row has the version, else the suite exists
CreateInserts(c) ==
    /\ creating[c].pc = "read"
    /\ IF \E r \in test_suites : r.version = creating[c].version
       THEN /\ creating' = [creating EXCEPT ![c].pc = "failed"]
            /\ UNCHANGED <<test_suites, versionsAssigned>>
       ELSE /\ creating' = [creating EXCEPT ![c].pc = "created"]
            /\ test_suites' = test_suites
                   \cup {SuiteRow(creating[c].id, creating[c].version, "a")}
            /\ versionsAssigned' = Append(versionsAssigned, creating[c].version)
    /\ UNCHANGED uuids
    /\ UNCHANGED <<flowVars, valVars, prVars, winVars, adapterVars>>
    /\ UNCHANGED <<compVars, ledgerVars, netVars, execVars>>

\* update(id, {name}): UPDATE test_suites SET name = ?, updated_at = ?
UpdateSuite(id, name) ==
    /\ \E r \in test_suites : r.id = id /\ r.name # name
    /\ test_suites' = {IF r.id = id THEN SuiteRow(r.id, r.version, name) ELSE r :
                          r \in test_suites}
    /\ UNCHANGED <<creating, versionsAssigned, uuids>>
    /\ UNCHANGED <<flowVars, valVars, prVars, winVars, adapterVars>>
    /\ UNCHANGED <<compVars, ledgerVars, netVars, execVars>>

\* delete(id): DELETE FROM test_suites WHERE id = ?
DeleteSuite(id) ==
    /\ \E r \in test_suites : r.id = id
    /\ test_suites' = {r \in test_suites : r.id # id}
    /\ UNCHANGED <<creating, versionsAssigned, uuids>>
    /\ UNCHANGED <<flowVars, valVars, prVars, winVars, adapterVars>>
    /\ UNCHANGED <<compVars, ledgerVars, netVars, execVars>>

NextSuites ==
    \/ \E c \in Creators : CreateReadsVersion(c)
    \/ \E c \in Creators : CreateInserts(c)
    \/ \E id \in 1..MaxCreates, name \in SuiteNames : UpdateSuite(id, name)
    \/ \E id \in 1..MaxCreates : DeleteSuite(id)

SpecSuites == InitSuites /\ [][NextSuites]_vars

----------------------------------------------------------------------------
(* NLPParser.parse step by step: the awaits on the network *)

HealthCheckCall(provider) == [call |-> "healthCheck", provider |-> provider]

CompletionCall(provider) == [call |-> "completion", provider |-> provider]

\* The fallback loop from index i on: getAdapter throws for a provider that is
\* not registered, the catch logs it and the loop goes on; 0 when the loop ends
RECURSIVE NextRegisteredFallback(_, _, _)
NextRegisteredFallback(fallbackProviders, i, registered) ==
    IF i > Len(fallbackProviders) THEN 0
    ELSE IF fallbackProviders[i] \in registered THEN i
    ELSE NextRegisteredFallback(fallbackProviders, i + 1, registered)

InitNet ==
    /\ config \in FactoryConfigs
    /\ adapters \in {r \in SUBSET Providers : config.primaryProvider \in r}
    /\ health = [p \in adapters |-> FALSE]
    /\ adapter = ""
    /\ routeVariant = "plain"
    /\ modelText = <<>>
    /\ pc = "off"
    /\ attempted = {}
    /\ completion = Completion(FALSE, TRUE, <<>>)
    /\ result = NotParsed
    /\ response = NoAnswer
    /\ stage = "called"
    /\ fallbackIndex = 0
    /\ inFlight = NoCall
    /\ EmptyStore /\ IdleValidator /\ IdleParser /\ IdleAdapters
    /\ IdleCompiler /\ IdleLedger /\ IdleSuites /\ IdleExec

\* parse calls getPrimaryAdapter, which awaits primary.healthCheck(): the
\* request is sent with no timeout and no abort signal
SendPrimaryHealthCheck ==
    /\ stage = "called"
    /\ stage' = "primaryCheck"
    /\ inFlight' = HealthCheckCall(config.primaryProvider)
    /\ UNCHANGED <<fallbackIndex, flowVars>>
    /\ UNCHANGED <<valVars, prVars, winVars, adapterVars>>
    /\ UNCHANGED <<compVars, ledgerVars, suiteVars, execVars>>

\* The awaited health check settles (an answer, or an error that healthCheck
\* turns into false); getPrimaryAdapter runs on to its next await or return
HealthCheckSettles(isHealthy) ==
    /\ inFlight.call = "healthCheck"
    /\ health' = [health EXCEPT ![inFlight.provider] = isHealthy]
    /\ LET next == NextRegisteredFallback(config.fallbackProviders,
                                           fallbackIndex + 1, adapters)
       IN IF isHealthy
          THEN /\ adapter' = inFlight.provider
               /\ stage' = "adapterReturned"
               /\ inFlight' = NoCall
               /\ UNCHANGED fallbackIndex
          ELSE IF next = 0
          THEN /\ adapter' = config.primaryProvider
               /\ stage' = "adapterReturned"
               /\ inFlight' = NoCall
               /\ fallbackIndex' = Len(config.fallbackProviders)
          ELSE /\ adapter' = adapter
               /\ stage' = "fallbackCheck"
               /\ inFlight' = HealthCheckCall(config.fallbackProviders[next])
               /\ fallbackIndex' = next
    /\ UNCHANGED <<config, adapters, routeVariant, modelText, pc, attempted,
                   completion, result, response>>
    /\ UNCHANGED <<valVars, prVars, winVars, adapterVars>>
    /\ UNCHANGED <<compVars, ledgerVars, suiteVars, execVars>>

\* parse awaits adapter.parse, which awaits its completion request, again
\* with no timeout
SendCompletion ==
    /\ stage = "adapterReturned"
    /\ stage' = "completion"
    /\ inFlight' = CompletionCall(adapter)
    /\ UNCHANGED <<fallbackIndex, flowVars>>
    /\ UNCHANGED <<valVars, prVars, winVars, adapterVars>>
    /\ UNCHANGED <<compVars, ledgerVars, suiteVars, execVars>>

\* The completion request settles: parse returns its result or throws
CompletionSettles(failed) ==
    /\ inFlight.call = "completion"
    /\ stage' = IF failed THEN "failed" ELSE "returned"
    /\ inFlight' = NoCall
    /\ UNCHANGED <<fallbackIndex, flowVars>>
    /\ UNCHANGED <<valVars, prVars, winVars, adapterVars>>
    /\ UNCHANGED <<compVars, ledgerVars, suiteVars, execVars>>

NextNet ==
    \/ SendPrimaryHealthCheck
    \/ \E isHealthy \in BOOLEAN : HealthCheckSettles(isHealthy)
    \/ SendCompletion
    \/ \E failed \in BOOLEAN : CompletionSettles(failed)

\* The program's own steps are taken when they can be; whether a request is
\* ever answered is up to the network, and no timer of the program ends it
SpecNet ==
    /\ InitNet /\ [][NextNet]_vars
    /\ WF_vars(SendPrimaryHealthCheck) /\ WF_vars(SendCompletion)

----------------------------------------------------------------------------
(* Test execution: POST /api/execution/run/:suiteId and TestRunner.runTest *)

NumRuns == 2
MaxClock == 2

Runs == 1..NumRuns

\* A row of test_executions; the id is the uuid drawn by the run that made it
ExecutionRow(id, status, startedAt) ==
    [id |-> id, status |-> status, startedAt |-> startedAt]

\* executionModel.update(id, {status, ...}): UPDATE ... SET status = ? WHERE id = ?
UpdateStatus(rows, id, status) ==
    {IF e.id = id THEN ExecutionRow(e.id, status, e.startedAt) ELSE e : e \in rows}

\* SELECT ... WHERE suite_id = ? ORDER BY started_at DESC, first row: a row
\* with the greatest started_at; rows with equal started_at come in any order
LatestExecutions(rows) ==
    {e \in rows : \A f \in rows : f.startedAt =< e.startedAt}

InitExec ==
    /\ test_executions = {}
    /\ routePc = [r \in Runs |-> "idle"]
    /\ runPc = [r \in Runs |-> "none"]
    /\ answered = [r \in Runs |-> 0]
    /\ bodyDone = [r \in Runs |-> FALSE]
    /\ msClock = 0
    /\ IdleFlow /\ EmptyStore /\ IdleValidator /\ IdleParser /\ IdleAdapters
    /\ IdleCompiler /\ IdleLedger /\ IdleSuites /\ IdleNet

\* A millisecond passes
Tick ==
    /\ msClock < MaxClock
    /\ msClock' = msClock + 1
    /\ UNCHANGED <<test_executions, routePc, runPc, answered, bodyDone>>
    /\ UNCHANGED <<flowVars, valVars, prVars, winVars, adapterVars>>
    /\ UNCHANGED <<compVars, ledgerVars, suiteVars, netVars>>

\* The route finds the suite, calls runTest without awaiting it and calls
\* getBySuiteId: runTest is suspended in executionModel.create, the route in
\* getBySuiteId
PostRun(r) ==
    /\ routePc[r] = "idle"
    /\ routePc' = [routePc EXCEPT ![r] = "reading"]
    /\ runPc' = [runPc EXCEPT ![r] = "creating"]
    /\ UNCHANGED <<test_executions, answered, bodyDone, msClock>>
    /\ UNCHANGED <<flowVars, valVars, prVars, winVars, adapterVars>>
    /\ UNCHANGED <<compVars, ledgerVars, suiteVars, netVars>>

\* executionModel.create resumes: INSERT with status 'running' and
\* started_at = now
CreateExecution(r) ==
    /\ runPc[r] = "creating"
    /\ runPc' = [runPc EXCEPT ![r] = "setup"]
    /\ test_executions' = test_executions \cup {ExecutionRow(r, "running", msClock)}
    /\ UNCHANGED <<routePc, answered, bodyDone, msClock>>
    /\ UNCHANGED <<flowVars, valVars, prVars, winVars, adapterVars>>
    /\ UNCHANGED <<compVars, ledgerVars, suiteVars, netVars>>

\* getBySuiteId resumes after the create it was queued behind: the SELECT,
\* then latestExecution = rows[0] and the 202 response with its id
GetBySuiteId(r) ==
    /\ routePc[r] = "reading"
    /\ runPc[r] # "creating"
    /\ \E e \in LatestExecutions(test_executions) :
           answered' = [answered EXCEPT ![r] = e.id]
    /\ routePc' = [routePc EXCEPT ![r] = "responded"]
    /\ UNCHANGED <<test_executions, runPc, bodyDone, msClock>>
    /\ UNCHANGED <<flowVars, valVars, prVars, winVars, adapterVars>>
    /\ UNCHANGED <<compVars, ledgerVars, suiteVars, netVars>>

\* setupBrowser, mkdirSync and writeTestFile: a throw goes to catch (setupError)
SetupBrowser(r, throws) ==
    /\ runPc[r] = "setup"
    /\ runPc' = [runPc EXCEPT ![r] = IF throws THEN "setupError" ELSE "body"]
    /\ UNCHANGED <<test_executions, routePc, answered, bodyDone, msClock>>
    /\ UNCHANGED <<flowVars, valVars, prVars, winVars, adapterVars>>
    /\ UNCHANGED <<compVars, ledgerVars, suiteVars, netVars>>

\* executeTestCode: the test body completes or throws into the inner catch
ExecuteTestCode(r, throws) ==
    /\ runPc[r] = "body"
    /\ runPc' = [runPc EXCEPT ![r] = IF throws THEN "screenshot" ELSE "markPassed"]
    /\ bodyDone' = [bodyDone EXCEPT ![r] = ~throws]
    /\ UNCHANGED <<test_executions, routePc, answered, msClock>>
    /\ UNCHANGED <<flowVars, valVars, prVars, winVars, adapterVars>>
    /\ UNCHANGED <<compVars, ledgerVars, suiteVars, netVars>>

\* update(execution.id, {status: 'passed', ...})
UpdatePassed(r) ==
    /\ runPc[r] = "markPassed"
    /\ runPc' = [runPc EXCEPT ![r] = "closePassed"]
    /\ test_executions' = UpdateStatus(test_executions, r, "passed")
    /\ UNCHANGED <<routePc, answered, bodyDone, msClock>>
    /\ UNCHANGED <<flowVars, valVars, prVars, winVars, adapterVars>>
    /\ UNCHANGED <<compVars, ledgerVars, suiteVars, netVars>>

\* browser.close() after the passed update, still inside the inner try: a
\* throw goes to the inner catch
ClosePassed(r, throws) ==
    /\ runPc[r] = "closePassed"
    /\ runPc' = [runPc EXCEPT ![r] = IF throws THEN "screenshot" ELSE "returned"]
    /\ UNCHANGED <<test_executions, routePc, answered, bodyDone, msClock>>
    /\ UNCHANGED <<flowVars, valVars, prVars, winVars, adapterVars>>
    /\ UNCHANGED <<compVars, ledgerVars, suiteVars, netVars>>

\* The inner catch: page.screenshot; a throw leaves through the outer catch
FailureScreenshot(r, throws) ==
    /\ runPc[r] = "screenshot"
    /\ runPc' = [runPc EXCEPT ![r] = IF throws THEN "setupError" ELSE "markFailed"]
    /\ UNCHANGED <<test_executions, routePc, answered, bodyDone, msClock>>
    /\ UNCHANGED <<flowVars, valVars, prVars, winVars, adapterVars>>
    /\ UNCHANGED <<compVars, ledgerVars, suiteVars, netVars>>

\* update(execution.id, {status: 'failed', ...}) of the inner catch
UpdateFailed(r) ==
    /\ runPc[r] = "markFailed"
    /\ runPc' = [runPc EXCEPT ![r] = "closeFailed"]
    /\ test_executions' = UpdateStatus(test_executions, r, "failed")
    /\ UNCHANGED <<routePc, answered, bodyDone, msClock>>
    /\ UNCHANGED <<flowVars, valVars, prVars, winVars, adapterVars>>
    /\ UNCHANGED <<compVars, ledgerVars, suiteVars, netVars>>

\* browser.close() of the inner catch; a throw leaves through the outer catch
CloseFailed(r, throws) ==
    /\ runPc[r] = "closeFailed"
    /\ runPc' = [runPc EXCEPT ![r] = IF throws THEN "setupError" ELSE "returned"]
    /\ UNCHANGED <<test_executions, routePc, answered, bodyDone, msClock>>
    /\ UNCHANGED <<flowVars, valVars, prVars, winVars, adapterVars>>
    /\ UNCHANGED <<compVars, ledgerVars, suiteVars, netVars>>

\* catch (setupError): update(execution.id, {status: 'failed', ...}), return
UpdateSetupError(r) ==
    /\ runPc[r] = "setupError"
    /\ runPc' = [runPc EXCEPT ![r] = "returned"]
    /\ test_executions' = UpdateStatus(test_executions, r, "failed")
    /\ UNCHANGED <<routePc, answered, bodyDone, msClock>>
    /\ UNCHANGED <<flowVars, valVars, prVars, winVars, adapterVars>>
    /\ UNCHANGED <<compVars, ledgerVars, suiteVars, netVars>>

NextExec ==
    \/ Tick
    \/ \E r \in Runs : PostRun(r)
    \/ \E r \in Runs : CreateExecution(r)
    \/ \E r \in Runs : GetBySuiteId(r)
    \/ \E r \in Runs, throws \in BOOLEAN : SetupBrowser(r, throws)
    \/ \E r \in Runs, throws \in BOOLEAN : ExecuteTestCode(r, throws)
    \/ \E r \in Runs : UpdatePassed(r)
    \/ \E r \in Runs, throws \in BOOLEAN : ClosePassed(r, throws)
    \/ \E r \in Runs, throws \in BOOLEAN : FailureScreenshot(r, throws)
    \/ \E r \in Runs : UpdateFailed(r)
    \/ \E r \in Runs, throws \in BOOLEAN : CloseFailed(r, throws)
    \/ \E r \in Runs : UpdateSetupError(r)

SpecExec == InitExec /\ [][NextExec]_vars

----------------------------------------------------------------------------
(* Properties *)

Selected == adapter # ""

Parsed == pc \in {"parsed", "responded"} /\ Selected

\* The providers the configuration names and the factory registered
ConfiguredProviders ==
    adapters \cap ({config.primaryProvider} \cup Range(config.fallbackProviders))

\* The positions of config.fallbackProviders that hold a registered, healthy
\* provider
HealthyFallbacks ==
    {i \in 1..Len(config.fallbackProviders) :
        /\ config.fallbackProviders[i] \in adapters
        /\ health[config.fallbackProviders[i]]}

\* C1: getPrimaryAdapter() returns the primary when it is healthy, otherwise
\* the first healthy provider of fallbackProviders in declared order, and the
\* primary when no fallback is healthy.
C1_FallbackSelection ==
    Selected =>
        adapter = IF health[config.primaryProvider] THEN config.primaryProvider
                  ELSE IF HealthyFallbacks # {}
                       THEN config.fallbackProviders[Min(HealthyFallbacks)]
                       ELSE config.primaryProvider

\* Primary unhealthy, first fallback unhealthy, second fallback healthy and
\* returned
C1_Witness ==
    /\ Selected
    /\ ~health[config.primaryProvider]
    /\ Len(config.fallbackProviders) = 2
    /\ config.fallbackProviders[1] \in adapters
    /\ ~health[config.fallbackProviders[1]]
    /\ config.fallbackProviders[2] \in adapters
    /\ health[config.fallbackProviders[2]]
    /\ adapter = config.fallbackProviders[2]
    /\ adapter # config.primaryProvider

\* C2: when the completion call of the selected adapter fails, the error
\* reaches the caller of NLPParser.parse only if every configured provider
\* is unavailable: each one is unhealthy or had its own completion call tried.
C2_FailedCompletionRecovered ==
    (Parsed /\ completion.failed /\ ~result.ok) =>
        \A p \in ConfiguredProviders : ~health[p] \/ p \in attempted

\* The required-field table of the validator
MissingRequired(cmd) ==
    CASE cmd.type = "navigate" -> Falsy(cmd.value)
      [] cmd.type \in {"click", "hover"} -> Falsy(cmd.selector)
      [] cmd.type \in {"fill", "type", "select"} ->
            Falsy(cmd.selector) \/ Falsy(cmd.value)
      [] cmd.type = "wait" -> Falsy(cmd.selector) /\ Falsy(cmd.value)
      [] cmd.type = "press" -> Falsy(cmd.value)
      [] OTHER -> FALSE

\* C3: validateCommands rejects a command list exactly when one of its
\* commands lacks a required field of the table, whatever extra fields the
\* commands carry.
C3_ValidatorCompleteness ==
    vres # NotValidated =>
        (vres.thrown <=> \E i \in 1..Len(vcmds) : MissingRequired(vcmds[i]))

SameOutcome(a, b) ==
    /\ a.ok = b.ok
    /\ a.commands = b.commands
    /\ a.confidence = b.confidence
    /\ a.questionnaire = b.questionnaire

\* C4: a JSON text wrapped in a ```json fenced block parses to the same
\* commands, confidence and questionnaire as the same text unwrapped.
C4_FenceTolerance ==
    (JSONParse(ptext).ok /\ pres # NotParsed /\ wres # NotParsed) =>
        SameOutcome(pres, wres)

\* A JSON text with commands was parsed both bare and fenced
C4_Witness ==
    /\ JSONParse(ptext).ok
    /\ pres # NotParsed /\ wres # NotParsed
    /\ pres.ok /\ wres.ok
    /\ Len(wres.commands) > 0
    /\ JsonMatch(wtext).found

\* Position i of the text opens a fenced block (tagged or untagged) that
\* closes at the newline j and has a JSON text inside
FencedJSONAt(text, i, j) ==
    /\ text[i] = Ticks
    /\ text[j] = NL /\ text[j + 1] = Ticks
    /\ \/ /\ i + 2 =< j /\ text[i + 1] = NL
          /\ JSONParse(SubSeq(text, i + 2, j - 1)).ok
       \/ /\ i + 3 =< j /\ text[i + 1] = Tag /\ text[i + 2] = NL
          /\ JSONParse(SubSeq(text, i + 3, j - 1)).ok

\* The text is JSON as a whole or has a fenced block with a JSON interior
Recoverable(text) ==
    \/ JSONParse(text).ok
    \/ \E i \in 1..Len(text), j \in 1..(Len(text) - 1) : FencedJSONAt(text, i, j)

\* The completion service answered with a text and the adapter handed that
\* text to parseResponse (OpenAI and OpenRouter do not hand on an empty one)
TextHandedToParseResponse ==
    /\ Parsed
    /\ ~completion.failed /\ ~completion.isNull
    /\ completion.text # <<>> \/ adapter \notin {"openai", "openrouter"}

\* C5: for a raw text that is not recoverable JSON, parseResponse fails with
\* an error that carries the raw text and the request fails; no successful
\* result comes back.
C5_GarbageIsAnError ==
    (TextHandedToParseResponse /\ ~Recoverable(completion.text)) =>
        /\ ~result.ok
        /\ result.err.kind = "parse"
        /\ result.err.raw = completion.text
        /\ pc = "responded" => response.status = 500

\* A fenced block with prose inside was answered with a failure
C5_Witness ==
    /\ TextHandedToParseResponse
    /\ ~Recoverable(completion.text)
    /\ JsonMatch(completion.text).found
    /\ pc = "responded"
    /\ response.status = 500

RECURSIVE TokenSum(_, _, _, _)
\* Sum of countTokens(content) + 4 over msgs[lo..hi]
TokenSum(msgs, lo, hi, tiktokenOk) ==
    IF lo > hi THEN 0
    ELSE IF lo = hi THEN countMessageTokens(msgs[lo].content, tiktokenOk)
    ELSE TokenSum(msgs, lo, (lo + hi) \div 2, tiktokenOk)
         + TokenSum(msgs, ((lo + hi) \div 2) + 1, hi, tiktokenOk)

WindowTokens == TokenSum(window.messages, 1, Len(window.messages), window.tiktokenOk)

\* The session's messages at the time of the call, oldest first
SessionHistory == SelectSeq(window.rows, LAMBDA r : r.sid = window.sid)

\* C6: for any budget >= 0 the messages of the window cost no more than the
\* budget, each message costing countTokens(content) + 4.
C6_BudgetRespected ==
    (window.called /\ window.budget >= 0) => WindowTokens =< window.budget

\* A window of two or more messages that had to leave some out
C6_Witness ==
    /\ window.called
    /\ window.budget >= 0
    /\ Len(window.messages) >= 2
    /\ Len(window.messages) < Len(SessionHistory)
    /\ WindowTokens =< window.budget

Newest(S) == CHOOSE r \in S : \A q \in S : q.ts =< r.ts

\* The messages of a history that the window does not hold
LeftOut(history) == {r \in Range(history) : r \notin Range(window.messages)}

\* The RecentLimit newest messages of the session
RecentHistory ==
    IF Len(SessionHistory) > RecentLimit
    THEN SubSeq(SessionHistory, Len(SessionHistory) - RecentLimit + 1,
                Len(SessionHistory))
    ELSE SessionHistory

C9_QuestionnairePrecedence ==
    (pc = "responded" /\ result.ok /\ result.questionnaire # ""
       /\ Len(result.commands) = 0) =>
        /\ response.kind = "questionnaire"
        /\ ~response.scripts

\* C10: a successful result has at least one command or a questionnaire.
C10_NoEmptySuccess ==
    (Parsed /\ result.ok) =>
        Len(result.commands) > 0 \/ result.questionnaire # ""

\* What adapter.parse returned for the request, before validateCommands ran
AdapterResult == AdapterParse(adapter, completion)

\* The positions of a command list that lack a required field of the table
Violations(commands) == {i \in 1..Len(commands) : MissingRequired(commands[i])}

\* The field the validator names for a command: navigate and press need a
\* value, the element commands a selector first and then a value
MissingField(cmd) ==
    IF cmd.type \in {"click", "hover", "fill", "type", "select"} /\ Falsy(cmd.selector)
    THEN "selector"
    ELSE "value"

\* C11: when adapter.parse answers a command list in which some command
\* lacks a required field, NLPParser.parse fails: the error is the one of the
\* first violating command, naming its type and missing field, and no
\* result, full or emptied, is returned.
C11_ViolationFailsRequest ==
    (Parsed /\ AdapterResult.ok /\ Violations(AdapterResult.commands) # {}) =>
        /\ ~result.ok
        /\ result.err.kind = "validation"
        /\ result.err.type = AdapterResult.commands[Min(Violations(AdapterResult.commands))].type
        /\ result.err.field =
              MissingField(AdapterResult.commands[Min(Violations(AdapterResult.commands))])

\* C12: in every result NLPParser.parse returns, each click, fill, type,
\* select or hover command carries a non-empty selector.
C12_ElementCommandsHaveSelector ==
    (Parsed /\ result.ok) =>
        \A i \in 1..Len(result.commands) :
            result.commands[i].type \in {"click", "fill", "type", "select", "hover"}
                => ~Falsy(result.commands[i].selector)

\* A result with a click on a selector was returned
C12_Witness ==
    /\ Parsed /\ result.ok
    /\ \E i \in 1..Len(result.commands) :
          result.commands[i].type = "click" /\ result.commands[i].selector = "x"

\* C13: on parse success the model's fields pass through unchanged: the
\* confidence is the model's whenever the key is present, 0 included, and
\* 0.8 only when it is absent; the commands are the model's, and the empty
\* sequence when the key is absent.
C13_FieldsPassThrough ==
    (pres # NotParsed /\ pres.ok /\ JSONParse(ptext).ok) =>
        /\ pres.confidence = IF JSONParse(ptext).v.confidence = -1 THEN 8
                              ELSE JSONParse(ptext).v.confidence
        /\ pres.commands = IF JSONParse(ptext).v.hasCommands
                            THEN JSONParse(ptext).v.commands ELSE <<>>

\* C14: validateConfig is true exactly when apiKey and model are both
\* present, and the constructor throws otherwise, so an adapter instance
\* exists exactly for a configuration with a credential and a model.
C14_ValidConfigIffKeyAndModel ==
    instance # "none" =>
        (instance = "constructed"
            <=> (~Falsy(providerConfig.apiKey) /\ ~Falsy(providerConfig.model)))

\* C15: healthCheck never throws; it answers false on a network or
\* authentication error and true only when the backend answered the probe
\* with success.
C15_HealthCheckNeverThrows ==
    probe.ran => (~probe.thrown /\ (probe.value <=> probe.backend = "ok"))

\* A health check that met an unreachable backend and answered false
C15_Witness ==
    /\ probe.ran
    /\ probe.backend = "unreachable"
    /\ ~probe.thrown /\ ~probe.value

\* The entries of config.providers from which an adapter can be built
ValidEntries ==
    {p \in DOMAIN providers :
        providers[p].present /\ validateConfig(p, providers[p])}

\* C16: a factory whose primary has no entry in config.providers fails at
\* construction, so no getPrimaryAdapter call fails with 'Adapter not found';
\* a fallback without entry does not make the construction fail.
C16_PrimaryCheckedAtConstruction ==
    factory # "none" =>
        /\ ~providers[config.primaryProvider].present => factory = "failed"
        /\ factory = "constructed" => config.primaryProvider \in adapters
        /\ \A k \in 1..Len(calls) : ~calls[k].thrown
        /\ (/\ config.primaryProvider \in ValidEntries
            /\ \A p \in DOMAIN providers : providers[p].present => p \in ValidEntries)
              => factory = "constructed"

\* The construction failed for a primary without entry although another
\* provider is configured
C16_Witness ==
    /\ factory = "failed"
    /\ ~providers[config.primaryProvider].present
    /\ ValidEntries # {}
    /\ \A p \in DOMAIN providers : providers[p].present => p \in ValidEntries

\* The positions of config.fallbackProviders whose name has no adapter
UnregisteredFallbacks ==
    {i \in 1..Len(config.fallbackProviders) : config.fallbackProviders[i] \notin adapters}

\* The positions of config.fallbackProviders with an adapter that call c saw
\* healthy
HealthyIn(c) ==
    {i \in 1..Len(config.fallbackProviders) :
        /\ config.fallbackProviders[i] \in adapters
        /\ c.health[config.fallbackProviders[i]]}

\* C17: in the fallback walk a fallback whose lookup throws is skipped and
\* the walk goes on; with no healthy fallback the primary is returned, and
\* getPrimaryAdapter does not fail.
C17_ThrowingFallbackSkipped ==
    \A k \in 1..Len(calls) :
        (~calls[k].health[config.primaryProvider] /\ UnregisteredFallbacks # {}) =>
            /\ ~calls[k].thrown
            /\ calls[k].adapter =
                  IF HealthyIn(calls[k]) # {}
                  THEN config.fallbackProviders[Min(HealthyIn(calls[k]))]
                  ELSE config.primaryProvider

\* The first fallback has no adapter, the second is healthy and returned
C17_Witness ==
    /\ Len(calls) >= 1
    /\ ~calls[1].health[config.primaryProvider]
    /\ Len(config.fallbackProviders) = 2
    /\ config.fallbackProviders[1] \notin adapters
    /\ config.fallbackProviders[2] \in adapters
    /\ calls[1].health[config.fallbackProviders[2]]
    /\ ~calls[1].thrown
    /\ calls[1].adapter = config.fallbackProviders[2]

\* C18: health is not kept from one getPrimaryAdapter call to the next: a
\* primary seen unhealthy in one call is returned by a later call that sees
\* it healthy, and two calls that see the same health return the same
\* adapter.
C18_HealthNotCached ==
    \A j, k \in 1..Len(calls) :
        /\ calls[k].health[config.primaryProvider] =>
              calls[k].adapter = config.primaryProvider
        /\ calls[j].health = calls[k].health => calls[j].adapter = calls[k].adapter

\* The primary was unhealthy in the first call, which returned a fallback,
\* and is returned by the second call
C18_Witness ==
    /\ Len(calls) = 2
    /\ ~calls[1].health[config.primaryProvider]
    /\ calls[1].adapter # config.primaryProvider
    /\ calls[2].health[config.primaryProvider]
    /\ calls[2].adapter = config.primaryProvider

Sent == sentMessages.adapter # ""

\* C19: with a non-empty conversationHistory every adapter sends the system
\* message, then the history turns in their order and unmodified, then the
\* new user message last.
C19_HistoryBetweenSystemAndUser ==
    (Sent /\ Len(context.conversationHistory) > 0) =>
        /\ Len(sentMessages.messages) >= Len(context.conversationHistory) + 2
        /\ sentMessages.messages[1].kind = "system"
        /\ sentMessages.messages[Len(sentMessages.messages)].kind = "input"
        /\ sentMessages.messages[Len(sentMessages.messages)].text = userInput
        /\ \E k \in 1..(Len(sentMessages.messages) - 1 - Len(context.conversationHistory)) :
              SubSeq(sentMessages.messages, k + 1, k + Len(context.conversationHistory))
                = context.conversationHistory

\* C20: with non-empty previousCommands every adapter sends a turn with the
\* serialised previous commands, an assistant turn of the message list (for
\* Gemini a section of its prompt), placed before the new user turn.
C20_PreviousCommandsBeforeUser ==
    (Sent /\ Len(context.previousCommands) > 0) =>
        \E i, j \in 1..Len(sentMessages.messages) :
            /\ i < j
            /\ sentMessages.messages[i].kind = "previous"
            /\ sentMessages.messages[i].role \in {"assistant", "prompt"}
            /\ sentMessages.messages[i].commands = context.previousCommands
            /\ sentMessages.messages[j].kind = "input"
            /\ sentMessages.messages[j].text = userInput

\* The lines of a script that act on the page
IsActionLine(l) == l.op \notin {"import", "blank", "test", "end", "comment", "unknown"}

ActionPositions(code) == {p \in 1..Len(code) : IsActionLine(code[p])}

\* The k-th smallest element of a set of numbers
Kth(S, k) == CHOOSE x \in S : Cardinality({y \in S : y < x}) = k - 1

\* The command types a line can come from
TypesOf(op) ==
    CASE op = "goto" -> {"navigate"}
      [] op = "click" -> {"click"}
      [] op = "fill" -> {"type", "fill"}
      [] op \in {"expectText", "expectURL"} -> {"assert"}
      [] op \in {"waitForSelector", "waitForTimeout"} -> {"wait"}
      [] op \in {"locatorScreenshot", "pageScreenshot"} -> {"screenshot"}
      [] op = "selectOption" -> {"select"}
      [] op = "hover" -> {"hover"}
      [] op = "press" -> {"press"}
      [] OTHER -> {}

\* The commands that have an action line: all but a wait with neither
\* selector nor value
WithActionLine(commands) ==
    SelectSeq(commands,
              LAMBDA c : ~(c.type = "wait" /\ Falsy(c.selector) /\ Falsy(c.value)))

\* The action lines of the script are those of the commands, in the order
\* of the commands, each right after the comment with its description
OrderedAndCommented(code, commands) ==
    /\ Cardinality(ActionPositions(code)) = Len(WithActionLine(commands))
    /\ \A k \in 1..Len(WithActionLine(commands)) :
          /\ WithActionLine(commands)[k].type
                \in TypesOf(code[Kth(ActionPositions(code), k)].op)
          /\ ~Falsy(WithActionLine(commands)[k].description) =>
                code[Kth(ActionPositions(code), k) - 1]
                  = Line("comment", WithActionLine(commands)[k].description, "")

\* C21: generatePlaywrightCode emits the action lines in the order of the
\* commands, the action line of a command with a description right after a
\* comment line with that description; the navigate/click example compiles
\* to exactly the goto line and then the click line.
C21_OrderAndComments ==
    \A n \in 1..Len(scripts) :
        /\ OrderedAndCommented(scripts[n], compileInput.commands)
        /\ compileInput.commands = DocCatalog[1].commands =>
              SelectSeq(scripts[n], IsActionLine)
                = <<Line("goto", "x", ""), Line("click", "x", "")>>

\* The navigate/click example was scripts
C21_Witness ==
    /\ Len(scripts) >= 1
    /\ compileInput.commands = DocCatalog[1].commands
    /\ Cardinality(ActionPositions(scripts[1])) = 2

EntriesOf(r) == {i \in 1..Len(entries) : entries[i].request = r}

\* C23: whatever the interleaving of the addEntry calls of concurrently
\* processed requests, the ledger holds exactly one entry per call, and a
\* step never changes or removes an entry that is already there.
C23_LedgerAppendOnly ==
    /\ [](\A r \in DOMAIN tracking :
            Cardinality(EntriesOf(r)) = IF tracking[r] = "tracked" THEN 1 ELSE 0)
    /\ [][/\ Len(entries') >= Len(entries)
           /\ SubSeq(entries', 1, Len(entries)) = entries]_vars

\* Every request left its entry, and the last entry is not the one of the
\* last request
C23_Witness ==
    /\ DOMAIN tracking = Requests
    /\ \A r \in Requests : tracking[r] = "tracked"
    /\ Len(entries) >= NumRequests
    /\ entries[Len(entries)].request # NumRequests

\* C24: over any sequence of create, update and delete, a newly created
\* suite gets a version greater than every version assigned before, so no
\* version is assigned twice, also after the suite with the highest version
\* was deleted.
C24_VersionsStrictlyIncrease ==
    \A i, j \in 1..Len(versionsAssigned) :
        i < j => versionsAssigned[i] < versionsAssigned[j]

\* C28: two create calls that run concurrently both succeed, with distinct
\* versions: no interleaving of their reads and inserts makes an insert fail
\* on the UNIQUE constraint.
C28_ConcurrentCreatesSucceed ==
    \A c, e \in DOMAIN creating :
        /\ creating[c].pc # "failed"
        /\ (c # e /\ creating[c].pc = "created" /\ creating[e].pc = "created")
              => creating[c].version # creating[e].version

\* C25: every network call is bounded by a timeout, so getPrimaryAdapter
\* eventually returns an adapter and NLPParser.parse eventually returns or
\* fails, even when a health check or a completion request is never answered.
C25_PipelineNeverStalls ==
    /\ (stage = "primaryCheck") ~>
           (stage \in {"adapterReturned", "completion", "returned", "failed"})
    /\ (stage = "completion") ~> (stage \in {"returned", "failed"})

\* C27: every raw response that parseResponse accepts and whose commands
\* pass validation is answered by the chat route with commands or a
\* questionnaire, never with a 500 failure; this includes responses wrapped
\* in a fenced code block.
C27_AcceptedResponseIsAnswered ==
    (pc = "responded" /\ result.ok) => response.status # 500

\* The row that this request's saveMessage wrote: the newest user row
CurrentUserRow ==
    chat_messages[CHOOSE i \in 1..Len(chat_messages) :
                      /\ chat_messages[i].role = "user"
                      /\ \A j \in (i + 1)..Len(chat_messages) :
                             chat_messages[j].role # "user"]

\* The positions of a message sequence that carry the text as a user turn
UserTurnsWith(messages, text) ==
    {i \in 1..Len(messages) :
        /\ messages[i].role = "user"
        /\ messages[i].kind \in {"input", "turn"}
        /\ messages[i].text = text}

\* C26: in a chat request the history window holds only turns that precede
\* the current user message, and the message sequence given to the adapter
\* carries the current message exactly once, as the final user turn.
C26_CurrentMessageSentOnce ==
    (pc \in {"selected", "parsed", "responded"} /\ adapter # "") =>
        /\ \A i \in 1..Len(window.messages) :
               window.messages[i].ts < CurrentUserRow.ts
        /\ Cardinality(UserTurnsWith(
               RouteMessages(adapter, CurrentUserRow.content, window.messages),
               CurrentUserRow.content)) = 1

\* C29: the executionId of the 202 response is the id of the execution
\* record that this request's own runTest created, whatever other runs of
\* the suite do in between.
C29_ResponseNamesOwnExecution ==
    \A r \in DOMAIN routePc : routePc[r] = "responded" => answered[r] = r

\* The status of the execution record with the id
StatusOf(rows, id) == (CHOOSE e \in rows : e.id = id).status

HasExecution(rows, id) == \E e \in rows : e.id = id

\* C30: an execution record starts 'running', is 'passed' or 'failed' when
\* runTest returns on every path, is 'passed' only if the test body completed
\* without an error, and never changes status once it is 'passed' or 'failed'.
C30_ExecutionLifecycle ==
    /\ [](\A r \in DOMAIN runPc :
            /\ runPc[r] = "setup" => StatusOf(test_executions, r) = "running"
            /\ runPc[r] = "returned" =>
                   StatusOf(test_executions, r) \in {"passed", "failed"}
            /\ (HasExecution(test_executions, r)
                  /\ StatusOf(test_executions, r) = "passed") => bodyDone[r])
    /\ [][\A r \in DOMAIN runPc :
            (HasExecution(test_executions, r)
               /\ StatusOf(test_executions, r) \in {"passed", "failed"})
              => StatusOf(test_executions', r) = StatusOf(test_executions, r)]_vars

====
